---- MODULE Spec2Model ----
(***************************************************************************)
(* The canonicalizing hash table of parallel-hashlife: HashTable           *)
(* (src/src/hashtable_base.rs) over the concurrent slot SyncTableEntry     *)
(* (src/src/hashtable_base/sync.rs).                                       *)
(*                                                                         *)
(* Threads share the table by reference and run find / insert /            *)
(* insert (through get_or_insert); every access to shared memory (the atomic state word,    *)
(* the plain key01 / key1 / value cells) is a step of its own, so that     *)
(* every interleaving of the atomic operations is explored.  The owner of  *)
(* the table (a &mut borrow: no call in flight, no reference alive) runs   *)
(* set_insert_search_limit, drain and the drain iterator; iter is          *)
(* traversed on a quiescent table.                                         *)
(***************************************************************************)
EXTENDS Integers, Sequences, FiniteSets, TLC

(* ------------------------------ bounds -------------------------------- *)
\* capacity requested from the constructor
RequestedCapacity == 3
\* number of values ever passed to insert / get_or_insert
MaxValues == 2

\* number of values ever passed to insert by the one caller that fills the table
MaxSeqValues == 4
\* number of values ever passed to insert by the two threads that race for a slot
MaxRaceValues == 3
\* the small halves a state word is packed from (the largest ones are added)
MaxHalf == 6

\* number of values ever passed to fill on the slots tested alone
MaxEntryValues == 3
\* late values are Some(1) .. Some(MaxLateValue), and None
MaxLateValue == 2
\* number of set_late_value calls on one stored value
MaxSets == 2

\* width of usize in bits, for the capacities passed to the constructors
UsizeBits == 6

\* the threads sharing the table; thread 1 is also the caller of the sequential runs
Threads == {1, 2}

(* ------------------------------- keys --------------------------------- *)
\* Key(pub [[[NonZeroU32; 2]; 2]; 2]): key[1][1] is key00, key[1][2] is key01,
\* key[2] is key1.
KeyA == << << <<2, 3>>, <<4, 5>> >>, << <<6, 7>>, <<8, 4>> >> >>
\* same key00 as KeyA: the state word alone does not tell them apart
KeyB == << << <<2, 3>>, <<5, 4>> >>, << <<6, 7>>, <<8, 8>> >> >>
\* key01 and key1 equal to the cells' initial contents
KeyC == << << <<3, 1>>, <<1, 1>> >>, << <<1, 1>>, <<1, 1>> >> >>
Keys == {KeyA, KeyB, KeyC}
\* two more keys for the runs of one caller that fill the table: KeyD starts
\* at slot 1 of a 4-slot table, KeyE at the last slot as KeyA and KeyB do
KeyD == << << <<4, 2>>, <<1, 1>> >>, << <<1, 1>>, <<1, 2>> >> >>
KeyE == << << <<5, 3>>, <<1, 1>> >>, << <<1, 1>>, <<1, 2>> >> >>
MoreKeys == Keys \cup {KeyD, KeyE}
NoKey == << << <<0, 0>>, <<0, 0>> >>, << <<0, 0>>, <<0, 0>> >> >>

\* hasher.finish() of the table's BuildHasher: here the sum of the eight ids.
\* KeyA and KeyB collide on the last slot of a 4-slot table, KeyC starts at slot 2.
Hash(key) ==
    key[1][1][1] + key[1][1][2] + key[1][2][1] + key[1][2][2]
    + key[2][1][1] + key[2][1][2] + key[2][2][1] + key[2][2][2]

(* ------------------------------ values -------------------------------- *)
\* SyncTableValues { early_value, late_value: AtomicU32 }; late_value 0 is None.
\* early 0 stands for memory that holds no value (MaybeUninit::uninit, moved out).
Uninit == [early |-> 0, late |-> 0]
\* TableEntryValues::new(early_value, None)
NewValues(early_value) == [early |-> early_value, late |-> 0]

(* --------------------------- the state word --------------------------- *)
\* The two halves of the word are ids below IdRadix, the model's 2^32 (the
\* checker's integers end at 2^31 - 1, so the word is 30 bits wide here).
IdRadix == 32768

\* little-endian build: v0 as u64 + ((v1 as u64) << 32)
pack_u64(v) == v[1] + v[2] * IdRadix
\* [v as u32, (v >> 32) as u32]
unpack_u64(v) == << v % IdRadix, v \div IdRadix >>

EMPTY_U64 == pack_u64(<<0, 0>>)
MODIFICATION_IN_PROGRESS_U64 == pack_u64(<<1, 0>>)

\* impl From<u64> for State
StateFrom(v) ==
    IF v = EMPTY_U64 THEN [tag |-> "Empty", key00 |-> <<0, 0>>]
    ELSE IF v = MODIFICATION_IN_PROGRESS_U64
         THEN [tag |-> "ModificationInProgress", key00 |-> <<0, 0>>]
    ELSE IF unpack_u64(v)[1] = 0 \/ unpack_u64(v)[2] = 0
         THEN [tag |-> "invalid state", key00 |-> <<0, 0>>]
    ELSE [tag |-> "Full", key00 |-> unpack_u64(v)]

\* impl From<State> for u64, State::Full { key00 }
FullU64(key00) == pack_u64(key00)

\* big-endian build: ((v0 as u64) << 32) + v1 as u64
pack_u64_big(v) == v[1] * IdRadix + v[2]
\* [(v >> 32) as u32, v as u32]
unpack_u64_big(v) == << v \div IdRadix, v % IdRadix >>

\* mutant of pack_u64_of: the halves are added without the shift
pack_u64_of_unshifted(big, v) == v[1] + v[2]

\* pack_u64 / unpack_u64 of the build: cfg(target_endian = "big") or not
pack_u64_of(big, v) == IF big THEN pack_u64_big(v) ELSE pack_u64(v)
unpack_u64_of(big, v) == IF big THEN unpack_u64_big(v) ELSE unpack_u64(v)

\* the State enum: Empty, ModificationInProgress, Full { key00 }
StateEmpty == [tag |-> "Empty", key00 |-> <<0, 0>>]
StateModificationInProgress == [tag |-> "ModificationInProgress", key00 |-> <<0, 0>>]
StateFull(key00) == [tag |-> "Full", key00 |-> key00]

\* impl From<State> for u64, of the build
u64_from(big, st) ==
    IF st.tag = "Empty" THEN pack_u64_of(big, <<0, 0>>)
    ELSE IF st.tag = "ModificationInProgress" THEN pack_u64_of(big, <<1, 0>>)
    ELSE pack_u64_of(big, st.key00)

\* impl From<u64> for State, of the build: NonZeroU32::new(u).expect("invalid state")
State_from(big, v) ==
    LET u == unpack_u64_of(big, v) IN
    IF v = pack_u64_of(big, <<0, 0>>) THEN StateEmpty
    ELSE IF v = pack_u64_of(big, <<1, 0>>) THEN StateModificationInProgress
    ELSE IF u[1] = 0 \/ u[2] = 0 THEN [tag |-> "invalid state", key00 |-> <<0, 0>>]
    ELSE StateFull(u)

(* ------------------------------ the table ----------------------------- *)
RECURSIVE NextPow2From(_, _)
NextPow2From(p, n) == IF p >= n THEN p ELSE NextPow2From(2 * p, n)
\* usize::checked_next_power_of_two
checked_next_power_of_two(n) == NextPow2From(1, n)

Capacity == checked_next_power_of_two(RequestedCapacity)
Slots == 0..(Capacity - 1)

\* SyncTableEntry::EMPTY
EMPTY == [state |-> 0, key01 |-> <<1, 1>>, key1 |-> << <<1, 1>>, <<1, 1>> >>,
          value |-> Uninit]

\* insert search limits the owner passes to the constructor and to
\* set_insert_search_limit: one slot, two slots, more than the capacity
SearchLimits == {1, 2, Capacity + 1}
\* usize::max_value(), the limit find passes to table_indexes (the largest
\* integer of the checker stands for it)
UsizeMax == 2147483647

Min(a, b) == IF a < b THEN a ELSE b

\* a & b on machine words, bit by bit
RECURSIVE BitAnd(_, _)
BitAnd(a, b) ==
    IF a = 0 \/ b = 0 THEN 0
    ELSE (a % 2) * (b % 2) + 2 * BitAnd(a \div 2, b \div 2)

\* x & table_index_mask for table_index_mask = self.capacity() - 1
MaskIndex(x) == BitAnd(x, Capacity - 1)

\* mutant of table_indexes_len: the limit is not applied
table_indexes_len_unlimited(limit) == Capacity

\* mutant of table_indexes: the index is stepped before it is masked, by two
table_indexes_by_two(key, i) == MaskIndex(MaskIndex(Hash(key)) + 2 * i)

\* HashTable::table_indexes: the number of indexes .take() lets through
table_indexes_len(limit) == Min(Capacity, limit)
\* HashTable::table_indexes with TableIndexIter::next: the i-th index (from 0)
table_indexes(key, i) == MaskIndex(MaskIndex(Hash(key)) + i)

(* ------------------- the single-threaded slot -------------------------- *)
\* Option<LateValue> as the caller sees it: <<>> is None, <<v>> is Some(v)
None == <<>>
Some(v) == <<v>>

\* the late values a caller passes to set_late_value
LateValues == {None} \cup {Some(v) : v \in 1..MaxLateValue}

\* LocalTableValues { early_value, late_value: Cell<Option<LateValue>> }
LocalUninit == [early |-> 0, late |-> None]
\* LocalTableValues::new(early_value, late_value)
LocalNewValues(early_value, late_value) == [early |-> early_value, late |-> late_value]

\* LocalTableEntry::EMPTY; key000 0 is None
LocalEMPTY == [key000 |-> 0, key001 |-> 1, key01 |-> <<1, 1>>,
               key1 |-> << <<1, 1>>, <<1, 1>> >>, value |-> LocalUninit]

VARIABLES
    table,                 \* Box<[Entry]>: per slot state, key01, key1, value
    insert_search_limit,   \* HashTable::insert_search_limit
    thr,                   \* per thread: the call in flight and its locals
    nextValue,             \* the next early value handed to a call
    won,                   \* history: per slot, the key and value of the fill that won it
    accepted,              \* history: the (key, early) pairs insert returned Ok for
    wrote,                 \* history: per thread, whether its call has written to the table
    drainer,               \* the HashTableDrain alive, if any, and what it yielded
    iterator,              \* the HashTableIter alive, if any, and what it yielded
    ent,                   \* one slot of each backend outside any table, and its caller
    built,                 \* what the last call of a constructor made
    lowered,               \* history: the slots filled before the search limit was last lowered
    word                   \* the last state word packed or converted outside any slot

vars == <<table, insert_search_limit, thr, nextValue, won, accepted, wrote, drainer,
          iterator, ent, built, lowered, word>>

NoResult == [kind |-> "none", slot |-> 0, entry_key |-> NoKey, passed |-> Uninit]
Idle == [pc |-> "idle", op |-> "none", key |-> NoKey, value |-> Uninit, i |-> 0,
         n |-> 0, key00 |-> <<0, 0>>, backoff_step |-> 0,
         sr |-> NoResult, res |-> NoResult, out |-> NoResult,
         arg |-> Uninit, known |-> {}, at |-> {}, window |-> 0, blocked |-> FALSE]
NoWinner == [key |-> NoKey, value |-> Uninit]
\* phase: "live" (made), "ended" (its consumer has got None and calls next() no
\* more), "dropped" (until the table is used again); entry_iter: the index of the
\* next slot; exhausted: next() has returned None to the consumer; yielded: the
\* (key, value) pairs next() returned; before: the (slot, key, value) triples
\* stored when the iterator was made; again, previous: iter was called right
\* after another HashTableIter was run to its None, which had yielded previous
NoIter == [phase |-> "none", entry_iter |-> 0, exhausted |-> FALSE, yielded |-> <<>>,
           before |-> {}, again |-> FALSE, previous |-> <<>>]
\* a dropped iterator is forgotten when the table is used again
Forget(it) == IF it.phase = "dropped" THEN NoIter ELSE it

\* the slots under test, as tests::test_table_entry holds them: local and sync,
\* one LocalTableEntry and one SyncTableEntry put through the same calls; alive,
\* the slots exist (T::empty() has been called and the slots are not dropped);
\* op, the last call, with lres and sres what it returned on each backend and
\* lgot and sgot what get returned right before it; next, the next early value
\* made; lhand and shand, the values the caller owns (handed back by fill,
\* produced by take); ldrops and sdrops, how often each value was destructed;
\* sets, the late values set on the stored value since it was stored; key, the
\* key last passed to fill; abs, what the slot holds by the calls made so far
\* (fill on an empty slot stores, take and drop empty it), and was, what it held
\* before the last call
NoAbs == [key |-> NoKey, early |-> 0]
NoEntryResult == [kind |-> "none", key |-> NoKey, early |-> 0, passed |-> 0, late |-> None]
NoEnt == [local |-> LocalEMPTY, sync |-> EMPTY, alive |-> FALSE,
          op |-> "none", lres |-> NoEntryResult, sres |-> NoEntryResult,
          lgot |-> NoEntryResult, sgot |-> NoEntryResult,
          next |-> 1, lhand |-> {}, shand |-> {},
          ldrops |-> [v \in 1..MaxEntryValues |-> 0],
          sdrops |-> [v \in 1..MaxEntryValues |-> 0],
          sets |-> <<>>, key |-> NoKey, abs |-> NoAbs, was |-> NoAbs]

\* no constructor has been called (or what it made is dropped): requested, the
\* capacity asked for; kind, "table" or "panic"; table, the slots, indexed from
\* 0; insert_search_limit, the field of the HashTable made
NotBuilt == [kind |-> "none", requested |-> 0, table |-> <<>>, insert_search_limit |-> 0]

\* no word has been packed or converted
NoWord == [op |-> "none", big |-> FALSE, v |-> <<0, 0>>, u64 |-> 0, back |-> <<0, 0>>,
           st |-> [tag |-> "none", key00 |-> <<0, 0>>],
           decoded |-> [tag |-> "none", key00 |-> <<0, 0>>]]

Init ==
    /\ table = [s \in Slots |-> EMPTY]
    /\ insert_search_limit \in SearchLimits
    /\ thr = [t \in Threads |-> Idle]
    /\ nextValue = 1
    /\ won = [s \in Slots |-> NoWinner]
    /\ accepted = {}
    /\ wrote = [t \in Threads |-> FALSE]
    /\ drainer = NoIter
    /\ iterator = NoIter
    /\ ent = NoEnt
    /\ built = NotBuilt
    /\ lowered = {}
    /\ word = NoWord

\* a table whose insert search limit is above its capacity
InitUnlimited == Init /\ insert_search_limit = Capacity + 1

(* ------------------------- results of the calls ------------------------ *)
\* a reference &Values is the slot it points into; passed is the value handed
\* back to the caller (Uninit: none)
Result(kind, slot, entry_key, passed) ==
    [kind |-> kind, slot |-> slot, entry_key |-> entry_key, passed |-> passed]

\* the slot a call in flight is working on
CurSlot(r) == table_indexes(r.key, r.i)

\* mutant of get_or_insert: a key already in the table is reported as a failure
get_or_insert_strict(res) ==
    CASE res.kind = "Ok" ->
            Result("GetOrInsertSuccess", res.slot, NoKey, Uninit)
      [] res.kind \in {"AlreadyInTable", "TableFullOrSearchLimitHit"} ->
            Result("GetOrInsertFailure", 0, NoKey, res.passed)

\* HashTable::get_or_insert: the match on insert's result
get_or_insert(res) ==
    CASE res.kind = "Ok" ->
            Result("GetOrInsertSuccess", res.slot, NoKey, Uninit)
      [] res.kind = "AlreadyInTable" ->
            Result("GetOrInsertSuccess", res.slot, NoKey, res.passed)
      [] res.kind = "TableFullOrSearchLimitHit" ->
            Result("GetOrInsertFailure", 0, NoKey, res.passed)

\* find returns res; insert returns res to get_or_insert, which returns out
Finish(r, res) ==
    [r EXCEPT !.pc = "done", !.res = res,
              !.out = IF r.op = "insert" THEN get_or_insert(res) ELSE res,
              !.value = IF res.kind = "Ok" THEN Uninit ELSE r.value]

\* mutant of insert_after_fill: the entry's key is not compared with the key
insert_after_fill_no_compare(r, sr) ==
    LET q == [r EXCEPT !.sr = sr] IN
    IF sr.kind = "Ok" THEN Finish(q, Result("Ok", sr.slot, NoKey, Uninit))
    ELSE IF r.i + 1 < r.n
         THEN [q EXCEPT !.pc = "fill_cas", !.i = r.i + 1, !.value = sr.passed]
    ELSE Finish([q EXCEPT !.value = sr.passed],
                Result("TableFullOrSearchLimitHit", 0, NoKey, sr.passed))

\* mutant of insert_after_fill: the call gives up at the first slot that holds another key
insert_after_fill_gives_up(r, sr) ==
    LET q == [r EXCEPT !.sr = sr] IN
    IF sr.kind = "Ok" THEN Finish(q, Result("Ok", sr.slot, NoKey, Uninit))
    ELSE IF sr.entry_key = r.key
         THEN Finish(q, Result("AlreadyInTable", sr.slot, NoKey, sr.passed))
    ELSE Finish([q EXCEPT !.value = sr.passed],
                Result("TableFullOrSearchLimitHit", 0, NoKey, sr.passed))

\* mutant of insert_after_fill: the loop takes one index more than table_indexes yields
insert_after_fill_one_more(r, sr) ==
    LET q == [r EXCEPT !.sr = sr] IN
    IF sr.kind = "Ok" THEN Finish(q, Result("Ok", sr.slot, NoKey, Uninit))
    ELSE IF sr.entry_key = r.key
         THEN Finish(q, Result("AlreadyInTable", sr.slot, NoKey, sr.passed))
    ELSE IF r.i + 1 <= r.n
         THEN [q EXCEPT !.pc = "fill_cas", !.i = r.i + 1, !.value = sr.passed]
    ELSE Finish([q EXCEPT !.value = sr.passed],
                Result("TableFullOrSearchLimitHit", 0, NoKey, sr.passed))

\* HashTable::insert, the body of the for loop once fill has returned sr,
\* and the return after the loop
insert_after_fill(r, sr) ==
    LET q == [r EXCEPT !.sr = sr] IN
    IF sr.kind = "Ok" THEN Finish(q, Result("Ok", sr.slot, NoKey, Uninit))
    ELSE IF sr.entry_key = r.key
         THEN Finish(q, Result("AlreadyInTable", sr.slot, NoKey, sr.passed))
    ELSE IF r.i + 1 < r.n
         THEN [q EXCEPT !.pc = "fill_cas", !.i = r.i + 1, !.value = sr.passed]
    ELSE Finish([q EXCEPT !.value = sr.passed],
                Result("TableFullOrSearchLimitHit", 0, NoKey, sr.passed))

\* mutant of find_after_get: an empty slot does not end the search
find_after_get_past_empty(r, sr) ==
    LET q == [r EXCEPT !.sr = sr] IN
    IF sr.kind # "None" /\ sr.entry_key = r.key
    THEN Finish(q, Result("Some", sr.slot, NoKey, Uninit))
    ELSE IF r.i + 1 < r.n
         THEN [q EXCEPT !.pc = "get_load", !.i = r.i + 1, !.backoff_step = 0]
    ELSE Finish(q, Result("None", 0, NoKey, Uninit))

\* HashTable::find, the body of the for loop once get has returned sr,
\* and the return after the loop
find_after_get(r, sr) ==
    LET q == [r EXCEPT !.sr = sr] IN
    IF sr.kind = "None" THEN Finish(q, Result("None", 0, NoKey, Uninit))
    ELSE IF sr.entry_key = r.key
         THEN Finish(q, Result("Some", sr.slot, NoKey, Uninit))
    ELSE IF r.i + 1 < r.n
         THEN [q EXCEPT !.pc = "get_load", !.i = r.i + 1, !.backoff_step = 0]
    ELSE Finish(q, Result("None", 0, NoKey, Uninit))

(* ------------------------------ the calls ------------------------------ *)
\* history: thread t's step has changed the table
Track(t) == wrote' = [wrote EXCEPT ![t] = wrote[t] \/ table' # table]

\* the slots that hold key (the state word is Full, the entry's key is key)
SlotsOf(tbl, key) ==
    {s \in Slots : /\ StateFrom(tbl[s].state).tag = "Full"
                   /\ << <<StateFrom(tbl[s].state).key00, tbl[s].key01>>, tbl[s].key1 >> = key}

\* the first n probe positions of key all hold other keys
Blocked(tbl, key, n) ==
    \A i \in 0..(n - 1) :
        /\ StateFrom(tbl[table_indexes(key, i)].state).tag = "Full"
        /\ table_indexes(key, i) \notin SlotsOf(tbl, key)

\* history kept with a call, as it was when the call started: at, the slots
\* that held its key, each with the early value stored; window, the number of
\* probe positions within the insert search limit; blocked, whether those
\* positions all held other keys; known, the early values insert had returned
\* Ok for with its key
AtCall(r) ==
    [r EXCEPT !.at = {<<s, table[s].value.early>> : s \in SlotsOf(table, r.key)},
              !.window = Min(Capacity, insert_search_limit),
              !.blocked = Blocked(table, r.key, Min(Capacity, insert_search_limit)),
              !.known = {p[2] : p \in {q \in accepted : q[1] = r.key}}]
AllIdle == \A t \in Threads : thr[t].pc = "idle"
\* no drain iterator holds the table's &mut borrow, no iter is being traversed
Shared == drainer.phase \notin {"live", "ended"} /\ iterator.phase \notin {"live", "ended"}

\* mutant of CallFind: the probe sequence is cut at the insert search limit
CallFind_limited(t, key) ==
    /\ thr[t].pc = "idle"
    /\ Shared
    /\ thr' = [thr EXCEPT ![t] =
                 AtCall([Idle EXCEPT !.pc = "get_load", !.op = "find", !.key = key,
                                     !.n = table_indexes_len(insert_search_limit)])]
    /\ UNCHANGED <<table, insert_search_limit, nextValue, won, accepted>>
    /\ drainer' = Forget(drainer) /\ iterator' = Forget(iterator)
    /\ wrote' = [wrote EXCEPT ![t] = FALSE]
    /\ UNCHANGED <<ent, built, lowered, word>>

\* find(key): table_indexes(key, usize::max_value()), then get on the first index
CallFind(t, key) ==
    /\ thr[t].pc = "idle"
    /\ Shared
    /\ thr' = [thr EXCEPT ![t] =
                 AtCall([Idle EXCEPT !.pc = "get_load", !.op = "find", !.key = key,
                                     !.n = table_indexes_len(UsizeMax)])]
    /\ UNCHANGED <<table, insert_search_limit, nextValue, won, accepted>>
    /\ drainer' = Forget(drainer) /\ iterator' = Forget(iterator)
    /\ wrote' = [wrote EXCEPT ![t] = FALSE]
    /\ UNCHANGED <<ent, built, lowered, word>>

\* get_or_insert(key, value) and the insert(key, value) it calls:
\* table_indexes(key, self.insert_search_limit), then fill on the first index;
\* values is the number of values the callers ever pass
CallInsertOf(t, key, values) ==
    /\ thr[t].pc = "idle"
    /\ Shared
    /\ nextValue <= values
    /\ LET r == AtCall([Idle EXCEPT !.pc = "fill_cas", !.op = "insert", !.key = key,
                                    !.value = NewValues(nextValue),
                                    !.arg = NewValues(nextValue),
                                    !.n = table_indexes_len(insert_search_limit)])
       IN thr' = [thr EXCEPT ![t] =
                    IF r.n = 0
                    THEN Finish(r, Result("TableFullOrSearchLimitHit", 0, NoKey, r.value))
                    ELSE r]
    /\ nextValue' = nextValue + 1
    /\ UNCHANGED <<table, insert_search_limit, won, accepted>>
    /\ drainer' = Forget(drainer) /\ iterator' = Forget(iterator)
    /\ wrote' = [wrote EXCEPT ![t] = FALSE]
    /\ UNCHANGED <<ent, built, lowered, word>>

CallInsert(t, key) == CallInsertOf(t, key, MaxValues)

(* ---------------------- SyncTableEntry::fill --------------------------- *)
\* mutant of fill_already_full: the caller's value is dropped, not handed back
fill_already_full_dropped(r, s, key00) ==
    Result("AlreadyFull", s, << <<key00, table[s].key01>>, table[s].key1 >>, Uninit)

\* the Err(State::Full { key00 }) arm: key01 and key1 are read, AlreadyFull returned.
\* The two plain loads are one step: the cells are written only by the fill
\* that holds the slot in ModificationInProgress.
fill_already_full(r, s, key00) ==
    Result("AlreadyFull", s, << <<key00, table[s].key01>>, table[s].key1 >>, r.value)

\* mutant of fill_cas: a plain store in place of the compare-and-swap, so that a
\* slot another fill is working on is taken too
fill_cas_store(t) ==
    LET r == thr[t]
        s == CurSlot(r)
        st == StateFrom(table[s].state)
    IN
    /\ r.pc = "fill_cas"
    /\ \/ /\ st.tag \in {"Empty", "ModificationInProgress"}
          /\ table' = [table EXCEPT ![s].state = MODIFICATION_IN_PROGRESS_U64]
          /\ thr' = [thr EXCEPT ![t].pc = "fill_key01"]
          /\ won' = [won EXCEPT ![s] = [key |-> r.key, value |-> r.value]]
       \/ /\ st.tag = "Full"
          /\ thr' = [thr EXCEPT ![t].pc = "fill_full", ![t].key00 = st.key00]
          /\ UNCHANGED <<table, won>>
    /\ UNCHANGED <<insert_search_limit, nextValue, accepted, drainer, iterator>>
    /\ Track(t)
    /\ UNCHANGED <<ent, built, lowered, word>>

\* mutant of fill_cas: a slot another fill is working on is passed over as if
\* it held another key, without waiting for its entry
fill_cas_passes_in_progress(t) ==
    LET r == thr[t]
        s == CurSlot(r)
        st == StateFrom(table[s].state)
    IN
    /\ r.pc = "fill_cas"
    /\ \/ /\ st.tag = "Empty"
          /\ table' = [table EXCEPT ![s].state = MODIFICATION_IN_PROGRESS_U64]
          /\ thr' = [thr EXCEPT ![t].pc = "fill_key01"]
          /\ won' = [won EXCEPT ![s] = [key |-> r.key, value |-> r.value]]
       \/ /\ st.tag = "ModificationInProgress"
          /\ thr' = [thr EXCEPT ![t] =
                       insert_after_fill(r, Result("AlreadyFull", s, NoKey, r.value))]
          /\ UNCHANGED <<table, won>>
       \/ /\ st.tag = "Full"
          /\ thr' = [thr EXCEPT ![t].pc = "fill_full", ![t].key00 = st.key00]
          /\ UNCHANGED <<table, won>>
    /\ UNCHANGED <<insert_search_limit, nextValue, accepted, drainer, iterator>>
    /\ Track(t)
    /\ UNCHANGED <<ent, built, lowered, word>>

\* compare_exchange_weak(EMPTY_U64, MODIFICATION_IN_PROGRESS_U64, Acquire, Acquire)
\* and the match on its result
fill_cas(t) ==
    LET r == thr[t]
        s == CurSlot(r)
        st == StateFrom(table[s].state)
    IN
    /\ r.pc = "fill_cas"
    /\ \/ /\ st.tag = "Empty"
          /\ table' = [table EXCEPT ![s].state = MODIFICATION_IN_PROGRESS_U64]
          /\ thr' = [thr EXCEPT ![t].pc = "fill_key01"]
          /\ won' = [won EXCEPT ![s] = [key |-> r.key, value |-> r.value]]
       \/ /\ st.tag = "ModificationInProgress"
          /\ thr' = [thr EXCEPT ![t].pc = "get_load", ![t].backoff_step = 0]
          /\ UNCHANGED <<table, won>>
       \/ /\ st.tag = "Full"
          /\ thr' = [thr EXCEPT ![t].pc = "fill_full", ![t].key00 = st.key00]
          /\ UNCHANGED <<table, won>>
       \/ /\ st.tag = "invalid state"
          /\ thr' = [thr EXCEPT ![t] = Finish(r, Result("panic", s, NoKey, r.value))]
          /\ UNCHANGED <<table, won>>
    /\ UNCHANGED <<insert_search_limit, nextValue, accepted, drainer, iterator>>
    /\ Track(t)
    /\ UNCHANGED <<ent, built, lowered, word>>

\* mutant of fill_full: the occupied slot is reset to Empty for the next try
fill_full_clears(t) ==
    LET r == thr[t]
        s == CurSlot(r)
    IN
    /\ r.pc = "fill_full"
    /\ table' = [table EXCEPT ![s].state = EMPTY_U64]
    /\ thr' = [thr EXCEPT ![t] = insert_after_fill(r, fill_already_full(r, s, r.key00))]
    /\ UNCHANGED <<insert_search_limit, nextValue, won, accepted, drainer, iterator>>
    /\ Track(t)
    /\ UNCHANGED <<ent, built, lowered, word>>

\* mutant of fill_full: the value of the occupied slot is replaced by the caller's
fill_full_replace(t) ==
    LET r == thr[t]
        s == CurSlot(r)
    IN
    /\ r.pc = "fill_full"
    /\ table' = [table EXCEPT ![s].value = r.value]
    /\ thr' = [thr EXCEPT ![t] = insert_after_fill(r, fill_already_full(r, s, r.key00))]
    /\ UNCHANGED <<insert_search_limit, nextValue, won, accepted, drainer, iterator>>
    /\ Track(t)
    /\ UNCHANGED <<ent, built, lowered, word>>

\* Err(State::Full { key00 }) => key01, key1 read; return Err(AlreadyFull {..})
fill_full(t) ==
    LET r == thr[t]
        s == CurSlot(r)
    IN
    /\ r.pc = "fill_full"
    /\ thr' = [thr EXCEPT ![t] = insert_after_fill(r, fill_already_full(r, s, r.key00))]
    /\ UNCHANGED <<table, insert_search_limit, nextValue, won, accepted, drainer, iterator>>
    /\ Track(t)
    /\ UNCHANGED <<ent, built, lowered, word>>

\* mutant of fill_key01: Full is stored before key1 and the value are written
fill_key01_publish(t) ==
    LET r == thr[t]
        s == CurSlot(r)
    IN
    /\ r.pc = "fill_key01"
    /\ table' = [table EXCEPT ![s].key01 = r.key[1][2],
                              ![s].state = FullU64(r.key[1][1])]
    /\ thr' = [thr EXCEPT ![t].pc = "fill_key1"]
    /\ UNCHANGED <<insert_search_limit, nextValue, won, accepted, drainer, iterator>>
    /\ Track(t)
    /\ UNCHANGED <<ent, built, lowered, word>>

\* *self.key01.get() = key01
fill_key01(t) ==
    LET r == thr[t]
        s == CurSlot(r)
    IN
    /\ r.pc = "fill_key01"
    /\ table' = [table EXCEPT ![s].key01 = r.key[1][2]]
    /\ thr' = [thr EXCEPT ![t].pc = "fill_key1"]
    /\ UNCHANGED <<insert_search_limit, nextValue, won, accepted, drainer, iterator>>
    /\ Track(t)
    /\ UNCHANGED <<ent, built, lowered, word>>

\* *self.key1.get() = key1
fill_key1(t) ==
    LET r == thr[t]
        s == CurSlot(r)
    IN
    /\ r.pc = "fill_key1"
    /\ table' = [table EXCEPT ![s].key1 = r.key[2]]
    /\ thr' = [thr EXCEPT ![t].pc = "fill_value"]
    /\ UNCHANGED <<insert_search_limit, nextValue, won, accepted, drainer, iterator>>
    /\ Track(t)
    /\ UNCHANGED <<ent, built, lowered, word>>

\* std::ptr::write(self.get_value_mut_ptr(), value)
fill_value(t) ==
    LET r == thr[t]
        s == CurSlot(r)
    IN
    /\ r.pc = "fill_value"
    /\ table' = [table EXCEPT ![s].value = r.value]
    /\ thr' = [thr EXCEPT ![t].pc = "fill_store", ![t].value = Uninit]
    /\ UNCHANGED <<insert_search_limit, nextValue, won, accepted, drainer, iterator>>
    /\ Track(t)
    /\ UNCHANGED <<ent, built, lowered, word>>

\* mutant of fill_store: fill returns Ok and leaves the state word as it is
fill_store_unpublished(t) ==
    LET r == thr[t]
        s == CurSlot(r)
    IN
    /\ r.pc = "fill_store"
    /\ thr' = [thr EXCEPT ![t] = insert_after_fill(r, Result("Ok", s, NoKey, Uninit))]
    /\ accepted' = accepted \cup {<<r.key, table[s].value.early>>}
    /\ UNCHANGED <<table, insert_search_limit, nextValue, won, drainer, iterator>>
    /\ Track(t)
    /\ UNCHANGED <<ent, built, lowered, word>>

\* self.state.store(u64::from(State::Full { key00 }), Release); Ok(&*value)
fill_store(t) ==
    LET r == thr[t]
        s == CurSlot(r)
    IN
    /\ r.pc = "fill_store"
    /\ table' = [table EXCEPT ![s].state = FullU64(r.key[1][1])]
    /\ thr' = [thr EXCEPT ![t] = insert_after_fill(r, Result("Ok", s, NoKey, Uninit))]
    /\ accepted' = accepted \cup {<<r.key, table[s].value.early>>}
    /\ UNCHANGED <<insert_search_limit, nextValue, won, drainer, iterator>>
    /\ Track(t)
    /\ UNCHANGED <<ent, built, lowered, word>>

(* ----------------------- SyncTableEntry::get --------------------------- *)
\* what get's caller does with its return: find's loop, or fill's
\* Err(State::ModificationInProgress) arm (expect, then Err(AlreadyFull {..}))
after_get(r, sr) ==
    IF r.op = "find" THEN find_after_get(r, sr)
    ELSE IF sr.kind = "None"
         THEN Finish([r EXCEPT !.sr = sr], Result("panic", sr.slot, NoKey, r.value))
    ELSE insert_after_fill(r, Result("AlreadyFull", sr.slot, sr.entry_key, r.value))

\* mutant of get_load: get waits on an Empty slot for a fill to come
get_load_waits_on_empty(t) ==
    LET r == thr[t]
        s == CurSlot(r)
        st == StateFrom(table[s].state)
    IN
    /\ r.pc = "get_load"
    /\ \/ /\ st.tag = "Full"
          /\ thr' = [thr EXCEPT ![t].pc = "get_read", ![t].key00 = st.key00]
       \/ /\ st.tag \in {"Empty", "ModificationInProgress"}
          /\ r.backoff_step <= 6
          /\ thr' = [thr EXCEPT ![t].backoff_step = r.backoff_step + 1]
       \/ /\ st.tag = "Empty"
          /\ r.backoff_step > 6
          /\ thr' = [thr EXCEPT ![t] = after_get(r, Result("None", s, NoKey, Uninit))]
    /\ UNCHANGED <<table, insert_search_limit, nextValue, won, accepted, drainer, iterator>>
    /\ Track(t)
    /\ UNCHANGED <<ent, built, lowered, word>>

\* mutant of get_load: get waits while a fill is in flight on any slot
get_load_global(t) ==
    LET r == thr[t]
        s == CurSlot(r)
        st == StateFrom(table[s].state)
        busy == \E x \in Slots :
                    StateFrom(table[x].state).tag = "ModificationInProgress"
    IN
    /\ r.pc = "get_load"
    /\ \/ /\ st.tag = "Empty" /\ ~busy
          /\ thr' = [thr EXCEPT ![t] = after_get(r, Result("None", s, NoKey, Uninit))]
       \/ /\ st.tag = "Full" /\ ~busy
          /\ thr' = [thr EXCEPT ![t].pc = "get_read", ![t].key00 = st.key00]
       \/ /\ busy
          /\ thr' = [thr EXCEPT ![t].backoff_step =
                        IF r.backoff_step <= 6 THEN r.backoff_step + 1
                        ELSE r.backoff_step]
    /\ UNCHANGED <<table, insert_search_limit, nextValue, won, accepted, drainer, iterator>>
    /\ Track(t)
    /\ UNCHANGED <<ent, built, lowered, word>>

\* one turn of get's loop: self.state.load(Acquire) and the match on it
get_load(t) ==
    LET r == thr[t]
        s == CurSlot(r)
        st == StateFrom(table[s].state)
    IN
    /\ r.pc = "get_load"
    /\ \/ /\ st.tag = "Empty"
          /\ thr' = [thr EXCEPT ![t] = after_get(r, Result("None", s, NoKey, Uninit))]
       \/ /\ st.tag = "Full"
          /\ thr' = [thr EXCEPT ![t].pc = "get_read", ![t].key00 = st.key00]
       \/ /\ st.tag = "ModificationInProgress"
          /\ thr' = [thr EXCEPT ![t].backoff_step =
                        IF r.backoff_step <= 6 THEN r.backoff_step + 1
                        ELSE r.backoff_step]
       \/ /\ st.tag = "invalid state"
          /\ thr' = [thr EXCEPT ![t] = Finish(r, Result("panic", s, NoKey, r.value))]
    /\ UNCHANGED <<table, insert_search_limit, nextValue, won, accepted, drainer, iterator>>
    /\ Track(t)
    /\ UNCHANGED <<ent, built, lowered, word>>

\* after the loop: key01 and key1 are read, Some((Key, &value)) returned
get_read(t) ==
    LET r == thr[t]
        s == CurSlot(r)
    IN
    /\ r.pc = "get_read"
    /\ thr' = [thr EXCEPT ![t] =
                 after_get(r, Result("Some", s,
                                     << <<r.key00, table[s].key01>>, table[s].key1 >>,
                                     Uninit))]
    /\ UNCHANGED <<table, insert_search_limit, nextValue, won, accepted, drainer, iterator>>
    /\ Track(t)
    /\ UNCHANGED <<ent, built, lowered, word>>

\* the caller drops the result of its call (and with it every reference into the table)
Return(t) ==
    /\ thr[t].pc = "done"
    /\ thr' = [thr EXCEPT ![t] = Idle]
    /\ UNCHANGED <<table, insert_search_limit, nextValue, won, accepted, drainer, iterator>>
    /\ wrote' = [wrote EXCEPT ![t] = FALSE]
    /\ UNCHANGED <<ent, built, lowered, word>>

(* ------------------------- the table's owner --------------------------- *)
\* mutant of set_insert_search_limit: the limit is set to 1 whatever is passed
set_insert_search_limit_to_one(limit) ==
    /\ AllIdle
    /\ Shared
    /\ limit # insert_search_limit
    /\ insert_search_limit' = 1
    /\ UNCHANGED <<table, thr, nextValue, won, accepted, wrote>>
    /\ drainer' = Forget(drainer) /\ iterator' = Forget(iterator)
    /\ lowered' = IF limit < insert_search_limit
                  THEN {s \in Slots : StateFrom(table[s].state).tag = "Full"}
                  ELSE lowered
    /\ UNCHANGED <<ent, built, word>>

\* HashTable::set_insert_search_limit (&mut self: no call in flight); the
\* slots occupied when the limit goes down are noted in lowered
set_insert_search_limit(limit) ==
    /\ AllIdle
    /\ Shared
    /\ limit # insert_search_limit
    /\ insert_search_limit' = limit
    /\ UNCHANGED <<table, thr, nextValue, won, accepted, wrote>>
    /\ drainer' = Forget(drainer) /\ iterator' = Forget(iterator)
    /\ lowered' = IF limit < insert_search_limit
                  THEN {s \in Slots : StateFrom(table[s].state).tag = "Full"}
                  ELSE lowered
    /\ UNCHANGED <<ent, built, word>>

\* SyncTableEntry::get on a slot no fill is working on: the loop ends at once
get(e) ==
    LET st == StateFrom(e.state) IN
    IF st.tag = "Full"
    THEN [kind |-> "Some", key |-> << <<st.key00, e.key01>>, e.key1 >>, value |-> e.value]
    ELSE IF st.tag = "Empty" THEN [kind |-> "None", key |-> NoKey, value |-> Uninit]
    ELSE [kind |-> "panic", key |-> NoKey, value |-> Uninit]

\* SyncTableEntry::take: what it returns
take(e) ==
    LET st == StateFrom(e.state) IN
    IF st.tag = "Full"
    THEN [kind |-> "Some", key |-> << <<st.key00, e.key01>>, e.key1 >>, value |-> e.value]
    ELSE IF st.tag = "Empty" THEN [kind |-> "None", key |-> NoKey, value |-> Uninit]
    ELSE [kind |-> "panic", key |-> NoKey, value |-> Uninit]

\* mutant of taken: the value is moved out and the state word left Full
taken_leaves_full(e) ==
    IF StateFrom(e.state).tag = "Full"
    THEN [e EXCEPT !.value = Uninit]
    ELSE e

\* SyncTableEntry::take: the slot it leaves (the value is moved out, the key
\* cells keep their contents)
taken(e) ==
    IF StateFrom(e.state).tag = "Full"
    THEN [e EXCEPT !.state = EMPTY_U64, !.value = Uninit]
    ELSE e

\* the (slot, key, value) triples of the occupied slots
Contents(tbl) ==
    {<<s, get(tbl[s]).key, get(tbl[s]).value>> : s \in {x \in Slots : get(tbl[x]).kind = "Some"}}

\* HashTable::find on a table no fill is working on: the slot of the entry it
\* returns, from the i-th index on
RECURSIVE find_from(_, _, _)
find_from(tbl, key, i) ==
    IF i >= table_indexes_len(UsizeMax) THEN [kind |-> "None", slot |-> 0]
    ELSE LET got == get(tbl[table_indexes(key, i)]) IN
         IF got.kind # "Some" THEN [kind |-> "None", slot |-> 0]
         ELSE IF got.key = key THEN [kind |-> "Some", slot |-> table_indexes(key, i)]
         ELSE find_from(tbl, key, i + 1)
find(tbl, key) == find_from(tbl, key, 0)

\* HashTable::drain (&mut self: no call in flight, no reference alive)
drain ==
    /\ AllIdle
    /\ Shared
    /\ drainer' = [NoIter EXCEPT !.phase = "live", !.before = Contents(table)]
    /\ iterator' = NoIter
    /\ accepted' = {}
    /\ UNCHANGED <<table, insert_search_limit, thr, nextValue, won, wrote>>
    /\ UNCHANGED <<ent, built, lowered, word>>

\* HashTableDrain::next: self.entry_iter.next().and_then(TableEntry::take),
\* called by a consumer that stops at the first None
HashTableDrain_next ==
    /\ drainer.phase = "live"
    /\ IF drainer.entry_iter < Capacity
       THEN LET s == drainer.entry_iter
                got == take(table[s])
            IN /\ table' = [table EXCEPT ![s] = taken(table[s])]
               /\ won' = [won EXCEPT ![s] = NoWinner]
               /\ drainer' = [drainer EXCEPT
                     !.entry_iter = s + 1,
                     !.phase = IF got.kind = "Some" THEN "live" ELSE "ended",
                     !.exhausted = got.kind # "Some",
                     !.yielded = IF got.kind = "Some"
                                 THEN Append(drainer.yielded, <<got.key, got.value>>)
                                 ELSE drainer.yielded]
       ELSE /\ drainer' = [drainer EXCEPT !.phase = "ended", !.exhausted = TRUE]
            /\ UNCHANGED <<table, won>>
    /\ UNCHANGED <<insert_search_limit, thr, nextValue, accepted, wrote, iterator>>
    /\ lowered' = {s \in lowered : StateFrom(table'[s].state).tag = "Full"}
    /\ UNCHANGED <<ent, built, word>>

\* the slot at which a loop `while let Some(_) = next()` started with entry_iter
\* at pos gets its first None (Capacity: the slice is exhausted)
RECURSIVE FirstNone(_, _)
FirstNone(tbl, pos) ==
    IF pos >= Capacity THEN Capacity
    ELSE IF take(tbl[pos]).kind = "Some" THEN FirstNone(tbl, pos + 1)
    ELSE pos

\* Drop for HashTableDrain: self.for_each(std::mem::drop), which calls next()
\* until it returns None
HashTableDrain_drop ==
    /\ drainer.phase \in {"live", "ended"}
    /\ LET stop == FirstNone(table, drainer.entry_iter) IN
       /\ table' = [s \in Slots |->
                      IF drainer.entry_iter <= s /\ s < stop THEN taken(table[s])
                      ELSE table[s]]
       /\ won' = [s \in Slots |->
                      IF drainer.entry_iter <= s /\ s < stop THEN NoWinner ELSE won[s]]
       /\ drainer' = [drainer EXCEPT !.phase = "dropped",
                                     !.entry_iter = Min(stop + 1, Capacity)]
    /\ UNCHANGED <<insert_search_limit, thr, nextValue, accepted, wrote, iterator>>
    /\ lowered' = {s \in lowered : StateFrom(table'[s].state).tag = "Full"}
    /\ UNCHANGED <<ent, built, word>>

\* HashTable::iter, on a table no call is working on
iter ==
    /\ AllIdle
    /\ Shared
    /\ iterator' = [NoIter EXCEPT
                       !.phase = "live", !.before = Contents(table),
                       !.again = (iterator.phase = "dropped" /\ iterator.exhausted),
                       !.previous = IF iterator.phase = "dropped" /\ iterator.exhausted
                                    THEN iterator.yielded ELSE <<>>]
    /\ drainer' = NoIter
    /\ UNCHANGED <<table, insert_search_limit, thr, nextValue, won, accepted, wrote>>
    /\ UNCHANGED <<ent, built, lowered, word>>

\* HashTableIter::next: self.entry_iter.next().and_then(TableEntry::get),
\* called by a consumer that stops at the first None
HashTableIter_next ==
    /\ iterator.phase = "live"
    /\ IF iterator.entry_iter < Capacity
       THEN LET s == iterator.entry_iter
                got == get(table[s])
            IN iterator' = [iterator EXCEPT
                     !.entry_iter = s + 1,
                     !.phase = IF got.kind = "Some" THEN "live" ELSE "ended",
                     !.exhausted = got.kind # "Some",
                     !.yielded = IF got.kind = "Some"
                                 THEN Append(iterator.yielded, <<got.key, got.value>>)
                                 ELSE iterator.yielded]
       ELSE iterator' = [iterator EXCEPT !.phase = "ended", !.exhausted = TRUE]
    /\ UNCHANGED <<table, insert_search_limit, thr, nextValue, won, accepted, wrote, drainer>>
    /\ UNCHANGED <<ent, built, lowered, word>>

\* the HashTableIter goes out of scope
HashTableIter_drop ==
    /\ iterator.phase \in {"live", "ended"}
    /\ iterator' = [iterator EXCEPT !.phase = "dropped"]
    /\ UNCHANGED <<table, insert_search_limit, thr, nextValue, won, accepted, wrote, drainer>>
    /\ UNCHANGED <<ent, built, lowered, word>>

(* ------------------ one slot, called by one thread --------------------- *)
\* LocalTableEntry::get
local_get(e) ==
    IF e.key000 = 0 THEN [kind |-> "None", key |-> NoKey, value |-> LocalUninit]
    ELSE [kind |-> "Some",
          key |-> << << <<e.key000, e.key001>>, e.key01 >>, e.key1 >>,
          value |-> e.value]

\* LocalTableEntry::fill: what it returns; passed is the value handed back
local_fill(e, key, value) ==
    IF local_get(e).kind = "Some"
    THEN [kind |-> "AlreadyFull", key |-> local_get(e).key,
          value |-> local_get(e).value, passed |-> value]
    ELSE [kind |-> "Ok", key |-> NoKey, value |-> value, passed |-> LocalUninit]

\* mutant of local_filled: the slot is written whether occupied or not
local_filled_overwrite(e, key, value) ==
    [key000 |-> key[1][1][1], key001 |-> key[1][1][2], key01 |-> key[1][2],
     key1 |-> key[2], value |-> value]

\* LocalTableEntry::fill: the slot it leaves
local_filled(e, key, value) ==
    IF local_get(e).kind = "Some" THEN e
    ELSE [key000 |-> key[1][1][1], key001 |-> key[1][1][2], key01 |-> key[1][2],
          key1 |-> key[2], value |-> value]

\* LocalTableEntry::take: what it returns
local_take(e) ==
    IF e.key000 = 0 THEN [kind |-> "None", key |-> NoKey, value |-> LocalUninit]
    ELSE [kind |-> "Some",
          key |-> << << <<e.key000, e.key001>>, e.key01 >>, e.key1 >>,
          value |-> e.value]

\* mutant of local_taken: key000 is read, not taken
local_taken_keeps(e) == e

\* LocalTableEntry::take: the slot it leaves. Option::take leaves None in
\* key000; ptr::read copies the value out and leaves the cell's bytes
local_taken(e) == [e EXCEPT !.key000 = 0]

\* Drop for LocalTableEntry: the early values destructed with the slot
LocalTableEntry_drop(e) == IF e.key000 # 0 THEN {e.value.early} ELSE {}

\* SyncTableEntry::fill with no other thread on the slot: what it returns.
\* The compare-and-swap succeeds on Empty (a spurious failure is tried again);
\* on ModificationInProgress get would wait for a fill that no thread runs.
fill(e, key, value) ==
    LET st == StateFrom(e.state) IN
    CASE st.tag = "Empty" ->
            [kind |-> "Ok", key |-> NoKey, value |-> value, passed |-> Uninit]
      [] st.tag = "Full" ->
            [kind |-> "AlreadyFull", key |-> << <<st.key00, e.key01>>, e.key1 >>,
             value |-> e.value, passed |-> value]
      [] st.tag = "ModificationInProgress" ->
            [kind |-> "spins", key |-> NoKey, value |-> Uninit, passed |-> value]
      [] OTHER ->
            [kind |-> "panic", key |-> NoKey, value |-> Uninit, passed |-> value]

\* mutant of filled: key1 is not written
filled_without_key1(e, key, value) ==
    IF StateFrom(e.state).tag = "Empty"
    THEN [state |-> FullU64(key[1][1]), key01 |-> key[1][2], key1 |-> e.key1,
          value |-> value]
    ELSE e

\* SyncTableEntry::fill with no other thread on the slot: the slot it leaves
filled(e, key, value) ==
    IF StateFrom(e.state).tag = "Empty"
    THEN [state |-> FullU64(key[1][1]), key01 |-> key[1][2], key1 |-> key[2],
          value |-> value]
    ELSE e

\* mutant of SyncTableEntry_drop: the slot is freed without looking at its state
SyncTableEntry_drop_nothing(e) == {}

\* Drop for SyncTableEntry: the early values destructed with the slot
SyncTableEntry_drop(e) ==
    IF StateFrom(e.state).tag = "Full" THEN {e.value.early} ELSE {}

\* SyncTableValues::set_late_value: the u32 stored (0 for None)
sync_set_late_value(late_value) == IF late_value = None THEN 0 ELSE late_value[1]
\* SyncTableValues::late_value: NonZeroU32::new of the u32 loaded
sync_late_value(values) == IF values.late = 0 THEN None ELSE Some(values.late)
\* LocalTableValues::set_late_value: the Option the Cell is set to
local_set_late_value(late_value) == late_value
\* LocalTableValues::late_value: Cell::get
local_late_value(values) == values.late

Next ==
    \/ \E t \in Threads, key \in Keys : CallFind(t, key)
    \/ \E t \in Threads, key \in Keys : CallInsert(t, key)
    \/ \E t \in Threads : fill_cas(t)
    \/ \E t \in Threads : fill_full(t)
    \/ \E t \in Threads : fill_key01(t)
    \/ \E t \in Threads : fill_key1(t)
    \/ \E t \in Threads : fill_value(t)
    \/ \E t \in Threads : fill_store(t)
    \/ \E t \in Threads : get_load(t)
    \/ \E t \in Threads : get_read(t)
    \/ \E t \in Threads : Return(t)
    \/ \E limit \in SearchLimits : set_insert_search_limit(limit)

Spec == Init /\ [][Next]_vars

\* what a thread does between winning fill's compare-and-swap and fill's return
WinnerSteps(t) == fill_key01(t) \/ fill_key1(t) \/ fill_value(t) \/ fill_store(t)
\* the other steps of a call in flight: the compare-and-swap, get's loop, the reads
CallSteps(t) == fill_cas(t) \/ fill_full(t) \/ get_load(t) \/ get_read(t)


\* one caller at a time (thread 1), and the owner's drain and iter
NextSeq ==
    \/ \E key \in Keys : CallFind(1, key)
    \/ \E key \in Keys : CallInsert(1, key)
    \/ fill_cas(1)
    \/ fill_full(1)
    \/ fill_key01(1)
    \/ fill_key1(1)
    \/ fill_value(1)
    \/ fill_store(1)
    \/ get_load(1)
    \/ get_read(1)
    \/ Return(1)
    \/ \E limit \in SearchLimits : set_insert_search_limit(limit)
    \/ drain
    \/ HashTableDrain_next
    \/ HashTableDrain_drop
    \/ iter
    \/ HashTableIter_next
    \/ HashTableIter_drop

SpecSeq == Init /\ [][NextSeq]_vars

\* one caller (thread 1) with keys and values enough to fill the table, and
\* the owner's changes of the insert search limit
NextFill ==
    \/ \E key \in MoreKeys : CallFind(1, key)
    \/ \E key \in MoreKeys : CallInsertOf(1, key, MaxSeqValues)
    \/ WinnerSteps(1)
    \/ CallSteps(1)
    \/ Return(1)
    \/ \E limit \in SearchLimits : set_insert_search_limit(limit)

SpecFill == Init /\ [][NextFill]_vars

\* the two keys of Keys that hash to the same slot
RaceKeys == {KeyA, KeyB}

\* two threads insert the keys that hash to one slot, each of them able to
\* call again while the other's call is under way
NextRace ==
    \/ \E t \in Threads, key \in RaceKeys : CallInsertOf(t, key, MaxRaceValues)
    \/ \E t \in Threads : WinnerSteps(t)
    \/ \E t \in Threads : CallSteps(t)
    \/ \E t \in Threads : Return(t)

SpecRace == Init /\ [][NextRace]_vars

(* ------------------ the late value of a table entry -------------------- *)
\* mutant of set_late_value: the store goes to the slot the key hashes to
set_late_value_at_home(t, late_value) ==
    /\ thr[t].pc = "done"
    /\ thr[t].res.kind \in {"Ok", "AlreadyInTable", "Some"}
    /\ table[table_indexes(thr[t].key, 0)].value.late # sync_set_late_value(late_value)
    /\ table' = [table EXCEPT
                    ![table_indexes(thr[t].key, 0)].value.late =
                        sync_set_late_value(late_value)]
    /\ UNCHANGED <<insert_search_limit, thr, nextValue, won, accepted, wrote, drainer,
                   iterator, ent, built, lowered, word>>

\* entry_value.set_late_value(late_value), by the thread whose call returned
\* the reference entry_value (Ok, AlreadyInTable, GetOrInsertSuccess, Some);
\* a store of the value the cell holds already is no step
set_late_value(t, late_value) ==
    /\ thr[t].pc = "done"
    /\ thr[t].res.kind \in {"Ok", "AlreadyInTable", "Some"}
    /\ table[thr[t].res.slot].value.late # sync_set_late_value(late_value)
    /\ table' = [table EXCEPT
                    ![thr[t].res.slot].value.late = sync_set_late_value(late_value)]
    /\ UNCHANGED <<insert_search_limit, thr, nextValue, won, accepted, wrote, drainer,
                   iterator, ent, built, lowered, word>>

\* the late values set on the entries of the shared table: one value, and None
TableLateValues == {None, Some(1)}

\* the threads' calls, the late values they set, and the owner's drain and iter
NextLate ==
    \/ \E t \in Threads, key \in Keys : CallFind(t, key)
    \/ \E t \in Threads, key \in Keys : CallInsert(t, key)
    \/ \E t \in Threads : fill_cas(t)
    \/ \E t \in Threads : fill_full(t)
    \/ \E t \in Threads : fill_key01(t)
    \/ \E t \in Threads : fill_key1(t)
    \/ \E t \in Threads : fill_value(t)
    \/ \E t \in Threads : fill_store(t)
    \/ \E t \in Threads : get_load(t)
    \/ \E t \in Threads : get_read(t)
    \/ \E t \in Threads : Return(t)
    \/ \E t \in Threads, late_value \in TableLateValues : set_late_value(t, late_value)
    \/ drain
    \/ HashTableDrain_next
    \/ HashTableDrain_drop
    \/ iter
    \/ HashTableIter_next
    \/ HashTableIter_drop

SpecLate == InitUnlimited /\ [][NextLate]_vars

(* ------------------- the calls of threads kept scheduled ---------------- *)
\* the calls of the threads on a table whose search limit stays as built
NextFair ==
    \/ \E t \in Threads, key \in Keys : CallFind(t, key)
    \/ \E t \in Threads, key \in Keys : CallInsert(t, key)
    \/ \E t \in Threads : WinnerSteps(t)
    \/ \E t \in Threads : CallSteps(t)
    \/ \E t \in Threads : Return(t)

\* every thread with a call in flight keeps being scheduled. A turn of get's
\* loop that has reached yield_now, and a spurious failure of
\* compare_exchange_weak, leave the state as it is: they are stuttering steps.
SpecFair ==
    /\ InitUnlimited
    /\ [][NextFair]_vars
    /\ \A t \in Threads : WF_vars(WinnerSteps(t)) /\ WF_vars(CallSteps(t))

(* --------------- the calls on the slots tested alone ------------------- *)
\* what a call on a slot returned: the key, the early value of the value
\* referenced or moved out, the early value handed back, the late value read
EntryResult(kind, key, early, passed, late) ==
    [kind |-> kind, key |-> key, early |-> early, passed |-> passed, late |-> late]
LocalGot(got) ==
    EntryResult(got.kind, got.key, got.value.early, 0, local_late_value(got.value))
SyncGot(got) ==
    EntryResult(got.kind, got.key, got.value.early, 0, sync_late_value(got.value))
LocalFilled(r) ==
    EntryResult(r.kind, r.key, r.value.early, r.passed.early, local_late_value(r.value))
SyncFilled(r) ==
    EntryResult(r.kind, r.key, r.value.early, r.passed.early, sync_late_value(r.value))
\* the values in vs are destructed once more
Destruct(drops, vs) == [v \in DOMAIN drops |-> IF v \in vs THEN drops[v] + 1 ELSE drops[v]]
\* what get returns on each slot before the call
Before(e) == [e EXCEPT !.lgot = LocalGot(local_get(ent.local)),
                       !.sgot = SyncGot(get(ent.sync)),
                       !.was = ent.abs]
OnlyEnt == UNCHANGED <<table, insert_search_limit, thr, nextValue, won, accepted, wrote,
                       drainer, iterator, built, lowered, word>>

\* T::empty()
entry_empty ==
    /\ ~ent.alive
    /\ ent' = [ent EXCEPT !.alive = TRUE, !.local = LocalEMPTY, !.sync = EMPTY,
                          !.op = "empty", !.lres = NoEntryResult, !.sres = NoEntryResult,
                          !.lgot = NoEntryResult, !.sgot = NoEntryResult, !.sets = <<>>,
                          !.abs = NoAbs, !.was = NoAbs]
    /\ OnlyEnt

\* table_entry.get()
entry_get ==
    /\ ent.alive
    /\ ent' = [Before(ent) EXCEPT !.op = "get",
                                  !.lres = LocalGot(local_get(ent.local)),
                                  !.sres = SyncGot(get(ent.sync))]
    /\ OnlyEnt

\* table_entry.fill(key, T::Values::new(early_value, None))
entry_fill(key) ==
    /\ ent.alive
    /\ ent.next <= MaxEntryValues
    /\ LET lv == LocalNewValues(ent.next, None)
           sv == NewValues(ent.next)
           lr == local_fill(ent.local, key, lv)
           sr == fill(ent.sync, key, sv)
       IN ent' = [Before(ent) EXCEPT
                     !.op = "fill", !.next = ent.next + 1, !.key = key,
                     !.abs = IF ent.abs = NoAbs THEN [key |-> key, early |-> ent.next]
                             ELSE ent.abs,
                     !.lres = LocalFilled(lr), !.sres = SyncFilled(sr),
                     !.local = local_filled(ent.local, key, lv),
                     !.sync = filled(ent.sync, key, sv),
                     !.lhand = ent.lhand \cup ({lr.passed.early} \ {0}),
                     !.shand = ent.shand \cup ({sr.passed.early} \ {0}),
                     !.sets = IF lr.kind = "Ok" \/ sr.kind = "Ok" THEN <<>> ELSE ent.sets]
    /\ OnlyEnt

\* table_entry.take()
entry_take ==
    /\ ent.alive
    /\ LET lr == local_take(ent.local)
           sr == take(ent.sync)
       IN ent' = [Before(ent) EXCEPT
                     !.op = "take", !.abs = NoAbs,
                     !.lres = LocalGot(lr), !.sres = SyncGot(sr),
                     !.local = local_taken(ent.local),
                     !.sync = taken(ent.sync),
                     !.lhand = ent.lhand \cup ({lr.value.early} \ {0}),
                     !.shand = ent.shand \cup ({sr.value.early} \ {0}),
                     !.sets = <<>>]
    /\ OnlyEnt

\* set_late_value(late_value) through the reference get returns
entry_set_late_value(late_value) ==
    /\ ent.alive
    /\ local_get(ent.local).kind = "Some" \/ get(ent.sync).kind = "Some"
    /\ Len(ent.sets) < MaxSets
    /\ ent' = [Before(ent) EXCEPT
                  !.op = "set_late_value",
                  !.lres = NoEntryResult, !.sres = NoEntryResult,
                  !.local = IF local_get(ent.local).kind = "Some"
                            THEN [ent.local EXCEPT
                                     !.value.late = local_set_late_value(late_value)]
                            ELSE ent.local,
                  !.sync = IF get(ent.sync).kind = "Some"
                           THEN [ent.sync EXCEPT
                                    !.value.late = sync_set_late_value(late_value)]
                           ELSE ent.sync,
                  !.sets = Append(ent.sets, late_value)]
    /\ OnlyEnt

\* late_value() through the reference get returns
entry_late_value ==
    /\ ent.alive
    /\ local_get(ent.local).kind = "Some" /\ get(ent.sync).kind = "Some"
    /\ ent' = [Before(ent) EXCEPT
                  !.op = "late_value",
                  !.lres = EntryResult("late", NoKey, 0, 0,
                                       local_late_value(local_get(ent.local).value)),
                  !.sres = EntryResult("late", NoKey, 0, 0,
                                       sync_late_value(get(ent.sync).value))]
    /\ OnlyEnt

\* std::mem::drop of a value the caller owns
entry_drop_value(v) ==
    /\ v \in ent.lhand \cup ent.shand
    /\ ent' = [ent EXCEPT !.op = "drop_value",
                          !.lhand = ent.lhand \ {v}, !.shand = ent.shand \ {v},
                          !.ldrops = Destruct(ent.ldrops, {v} \cap ent.lhand),
                          !.sdrops = Destruct(ent.sdrops, {v} \cap ent.shand)]
    /\ OnlyEnt

\* std::mem::drop(table_entry)
entry_drop ==
    /\ ent.alive
    /\ ent' = [Before(ent) EXCEPT
                  !.op = "drop", !.alive = FALSE, !.abs = NoAbs,
                  !.lres = NoEntryResult, !.sres = NoEntryResult,
                  !.ldrops = Destruct(ent.ldrops, LocalTableEntry_drop(ent.local)),
                  !.sdrops = Destruct(ent.sdrops, SyncTableEntry_drop(ent.sync))]
    /\ OnlyEnt

NextEntry ==
    \/ entry_empty
    \/ entry_get
    \/ \E key \in Keys : entry_fill(key)
    \/ entry_take
    \/ \E late_value \in LateValues : entry_set_late_value(late_value)
    \/ entry_late_value
    \/ \E v \in 1..MaxEntryValues : entry_drop_value(v)
    \/ entry_drop

\* the slots of both backends, put through the same calls by one thread
SpecEntry == InitUnlimited /\ [][NextEntry]_vars

(* --------------------------- the constructors -------------------------- *)
RECURSIVE Pow2(_)
Pow2(k) == IF k = 0 THEN 1 ELSE 2 * Pow2(k - 1)
\* usize::max_value() of a word of UsizeBits bits
UsizeWordMax == Pow2(UsizeBits) - 1
\* the capacities a caller can pass
Usizes == 0..UsizeWordMax

\* usize::BITS - p.leading_zeros(): the number of bits of p
RECURSIVE BitLength(_)
BitLength(p) == IF p = 0 THEN 0 ELSE 1 + BitLength(p \div 2)

\* usize::one_less_than_next_power_of_two:
\* if self <= 1 { return 0 }; usize::MAX >> (self - 1).leading_zeros()
one_less_than_next_power_of_two(n) ==
    IF n <= 1 THEN 0 ELSE UsizeWordMax \div Pow2(UsizeBits - BitLength(n - 1))

\* mutant of checked_add: the sum wraps round the word
wrapping_add(a, b) == Some((a + b) % (UsizeWordMax + 1))

\* usize::checked_add
checked_add(a, b) == IF a + b > UsizeWordMax THEN None ELSE Some(a + b)

\* usize::checked_next_power_of_two in a word of UsizeBits bits:
\* self.one_less_than_next_power_of_two().checked_add(1)
usize_checked_next_power_of_two(n) == checked_add(one_less_than_next_power_of_two(n), 1)

\* HashTable::with_search_limit_and_hasher
with_search_limit_and_hasher(capacity, limit) ==
    LET c == usize_checked_next_power_of_two(capacity) IN
    IF c = None
    THEN [kind |-> "panic", requested |-> capacity, table |-> <<>>,
          insert_search_limit |-> 0]
    ELSE [kind |-> "table", requested |-> capacity,
          table |-> [s \in 0..(c[1] - 1) |-> EMPTY],
          insert_search_limit |-> limit]

\* HashTable::with_hasher
with_hasher(capacity) == with_search_limit_and_hasher(capacity, 32)

\* HashTable::capacity: self.get_table().len()
capacity(h) == Cardinality(DOMAIN h.table)

OnlyBuilt == UNCHANGED <<table, insert_search_limit, thr, nextValue, won, accepted, wrote,
                         drainer, iterator, ent, lowered, word>>

\* HashTable::new(capacity) / HashTable::with_hasher(capacity, hasher)
CallNew(n) ==
    /\ built.kind = "none"
    /\ built' = with_hasher(n)
    /\ OnlyBuilt

\* HashTable::with_search_limit(capacity, insert_search_limit) /
\* HashTable::with_search_limit_and_hasher(capacity, insert_search_limit, hasher)
CallWithSearchLimit(n, limit) ==
    /\ built.kind = "none"
    /\ built' = with_search_limit_and_hasher(n, limit)
    /\ OnlyBuilt

\* the table made goes out of scope (or the panic has unwound)
DropBuilt ==
    /\ built.kind # "none"
    /\ built' = NotBuilt
    /\ OnlyBuilt

NextNew ==
    \/ \E n \in Usizes : CallNew(n)
    \/ \E n \in Usizes, limit \in SearchLimits : CallWithSearchLimit(n, limit)
    \/ DropBuilt

\* the constructors, called with every capacity of the word
SpecNew == InitUnlimited /\ [][NextNew]_vars

(* ------------------- the state word outside any slot ------------------- *)
\* the u32 halves tried: the smallest and the two largest
Halves == 0..MaxHalf \cup {IdRadix - 2, IdRadix - 1}
\* the states a slot can be given: key00 is [NonZeroU32; 2]
States ==
    {StateEmpty, StateModificationInProgress}
        \cup {StateFull(<<a, b>>) : a, b \in Halves \ {0}}

OnlyWord == UNCHANGED <<table, insert_search_limit, thr, nextValue, won, accepted, wrote,
                        drainer, iterator, ent, built, lowered>>

\* no call of the table has been made: the conversions are tried on their
\* own, as the tests of the module try them
Untouched ==
    /\ table = [s \in Slots |-> EMPTY]
    /\ thr = [t \in Threads |-> Idle]
    /\ nextValue = 1
    /\ drainer = NoIter /\ iterator = NoIter

\* unpack_u64(pack_u64(v)), as test_pack_unpack calls it
pack_unpack(big, v) ==
    /\ word' = [NoWord EXCEPT !.op = "pack", !.big = big, !.v = v,
                              !.u64 = pack_u64_of(big, v),
                              !.back = unpack_u64_of(big, pack_u64_of(big, v))]
    /\ word' # word
    /\ OnlyWord

\* State::from(u64::from(st)): what a load of the word a store wrote decodes to
state_store_load(big, st) ==
    /\ word' = [NoWord EXCEPT !.op = "state", !.big = big, !.st = st,
                              !.u64 = u64_from(big, st),
                              !.back = unpack_u64_of(big, u64_from(big, st)),
                              !.decoded = State_from(big, u64_from(big, st))]
    /\ word' # word
    /\ OnlyWord

\* the conversions tried on their own, and the table's calls (which store and
\* load state words by fill, get and take) while no such trial is held
NextWord ==
    \/ Untouched /\ \E big \in BOOLEAN, v \in Halves \X Halves : pack_unpack(big, v)
    \/ Untouched /\ \E big \in BOOLEAN, st \in States : state_store_load(big, st)
    \/ word = NoWord /\ NextLate

SpecWord == InitUnlimited /\ [][NextWord]_vars

(* ======================================================================= *)
(*                               the claims                                *)
(* ======================================================================= *)
IsFull(s) == StateFrom(table[s].state).tag = "Full"
IsInProgress(s) == StateFrom(table[s].state).tag = "ModificationInProgress"
InsertDone(t) == thr[t].pc = "done" /\ thr[t].op = "insert"
FindDone(t) == thr[t].pc = "done" /\ thr[t].op = "find"
Writing(t) == thr[t].pc \in {"fill_key01", "fill_key1", "fill_value", "fill_store"}

\* C1, as stated: of the calls of insert / get_or_insert with one key, exactly
\* one stores its value, and every other call gets AlreadyInTable (the success
\* variant with its value handed back) whose entry_value is the stored value.
C1_ExactlyOneStoresOthersAlreadyInTable ==
    \A t \in Threads : InsertDone(t) =>
        LET r == thr[t] IN
        /\ SlotsOf(table, r.key) = {r.res.slot}
        /\ \/ /\ r.res.kind = "Ok"
              /\ table[r.res.slot].value.early = r.arg.early
           \/ /\ r.res.kind = "AlreadyInTable"
              /\ r.res.passed = r.arg
              /\ table[r.res.slot].value.early # r.arg.early

\* C1, amended: at most one fill ever wins a slot for a key, so at most one
\* call's value is stored for it; a call returns Ok with its own value stored,
\* or AlreadyInTable (GetOrInsertSuccess with the value handed back) whose
\* entry_value is the one stored value of another call, or
\* TableFullOrSearchLimitHit with its value handed back, and that only when
\* the probe positions within the search limit all hold other keys.
C1_Uniqueness ==
    /\ \A key \in Keys : Cardinality({s \in Slots : won[s].key = key}) <= 1
    /\ \A t \in Threads : InsertDone(t) =>
        LET r == thr[t] IN
        \/ /\ r.res.kind = "Ok"
           /\ SlotsOf(table, r.key) = {r.res.slot}
           /\ table[r.res.slot].value.early = r.arg.early
           /\ r.out.kind = "GetOrInsertSuccess" /\ r.out.passed = Uninit
        \/ /\ r.res.kind = "AlreadyInTable"
           /\ SlotsOf(table, r.key) = {r.res.slot}
           /\ r.res.passed = r.arg /\ r.value = r.arg
           /\ table[r.res.slot].value.early \notin {0, r.arg.early}
           /\ r.out.kind = "GetOrInsertSuccess" /\ r.out.passed = r.arg
           /\ r.out.slot = r.res.slot
        \/ /\ r.res.kind = "TableFullOrSearchLimitHit"
           /\ r.res.passed = r.arg /\ r.value = r.arg
           /\ Blocked(table, r.key, r.n)

\* two calls with one key raced (the key was stored when neither started):
\* one stored its value, the other got AlreadyInTable
C1_Witness ==
    \E t, u \in Threads :
        /\ InsertDone(t) /\ InsertDone(u) /\ thr[t].key = thr[u].key
        /\ thr[t].at = {} /\ thr[u].at = {}
        /\ thr[t].res.kind = "Ok" /\ thr[u].res.kind = "AlreadyInTable"

\* C2: no torn reads. Whatever entry a get (in find, or in fill's wait for a
\* fill in flight) or a fill has handed out, its key is the complete key and
\* the referenced value the complete value of the fill that won the slot, and
\* the slot is Full; a get that is past its loop reads a Full slot.
C2_NoTornReads ==
    \A t \in Threads :
        /\ thr[t].sr.kind \in {"Some", "AlreadyFull"} =>
              LET s == thr[t].sr.slot IN
              /\ IsFull(s)
              /\ thr[t].sr.entry_key = won[s].key
              /\ thr[t].sr.entry_key \in Keys
              /\ table[s].value.early = won[s].value.early
              /\ table[s].value.early # 0
        /\ thr[t].pc \in {"get_read", "fill_full"} =>
              /\ IsFull(CurSlot(thr[t]))
              /\ thr[t].key00 = won[CurSlot(thr[t])].key[1][1]

\* a find met a fill in flight, waited, and returned the entry
C2_Witness ==
    \E t \in Threads :
        /\ FindDone(t) /\ thr[t].res.kind = "Some"
        /\ thr[t].backoff_step > 0
        /\ thr[t].sr.kind = "Some" /\ thr[t].sr.entry_key = thr[t].key

\* C3: read after write, and persistence. A find whose key insert had
\* returned Ok for before the find started returns the entry with that value,
\* whatever was inserted since and whatever the insert search limit is now.
C3_ReadAfterWrite ==
    \A t \in Threads : (FindDone(t) /\ thr[t].known # {}) =>
        /\ thr[t].res.kind = "Some"
        /\ thr[t].res.slot \in SlotsOf(table, thr[t].key)
        /\ table[thr[t].res.slot].value.early \in thr[t].known

\* a key is found past the positions the present insert search limit reaches
C3_Witness ==
    \E t \in Threads :
        /\ FindDone(t) /\ thr[t].known # {} /\ thr[t].res.kind = "Some"
        /\ thr[t].i >= thr[t].window

\* C4: at most one fill wins a slot. While a fill writes a slot it is the one
\* that won it and the slot is in ModificationInProgress; a Full slot holds the
\* key and value of its one winner; a fill that returned Ok is that winner; a
\* fill that returned AlreadyFull carries the winner's key and value and its
\* own value.
C4_OneFillWins ==
    /\ \A t \in Threads : Writing(t) =>
          /\ IsInProgress(CurSlot(thr[t]))
          /\ won[CurSlot(thr[t])] = [key |-> thr[t].key, value |-> thr[t].arg]
    /\ \A t, u \in Threads : (Writing(t) /\ Writing(u) /\ t # u) =>
          CurSlot(thr[t]) # CurSlot(thr[u])
    /\ \A s \in Slots : IsFull(s) =>
          /\ won[s] # NoWinner
          /\ << <<StateFrom(table[s].state).key00, table[s].key01>>, table[s].key1 >>
               = won[s].key
          /\ table[s].value.early = won[s].value.early
    /\ \A t \in Threads :
          /\ thr[t].sr.kind = "Ok" =>
                won[thr[t].sr.slot] = [key |-> thr[t].key, value |-> thr[t].arg]
          /\ thr[t].sr.kind = "AlreadyFull" =>
                /\ thr[t].sr.passed = thr[t].arg
                /\ thr[t].sr.entry_key = won[thr[t].sr.slot].key
                /\ won[thr[t].sr.slot].value.early # thr[t].arg.early
                /\ IsFull(thr[t].sr.slot)

\* two fills with different keys met on one empty slot: one returned Ok, the
\* other waited for it and returned AlreadyFull
C4_Witness ==
    \E t, u \in Threads :
        /\ thr[t].sr.kind = "Ok" /\ thr[u].sr.kind = "AlreadyFull"
        /\ thr[t].sr.slot = thr[u].sr.slot
        /\ thr[t].key # thr[u].key
        /\ thr[u].backoff_step > 0

(* ------------------------- drain and iter ------------------------------ *)
\* the (key, value) pairs stored when the iterator was made
PairsBefore(it) == {<<x[2], x[3]>> : x \in it.before}
PairsYielded(it) == {it.yielded[i] : i \in DOMAIN it.yielded}
\* the occupied slots of tbl below slot n, in increasing slot order
RECURSIVE InSlotOrder(_, _)
InSlotOrder(tbl, n) ==
    IF n = 0 THEN <<>>
    ELSE LET got == get(tbl[n - 1]) IN
         IF got.kind = "Some"
         THEN Append(InSlotOrder(tbl, n - 1), <<got.key, got.value>>)
         ELSE InSlotOrder(tbl, n - 1)

\* C5: drain completeness. Once next() has returned None, every pair that was
\* stored has been yielded exactly once; and after the drain, find returns
\* None for every key that was stored.
C5_DrainCompleteness ==
    /\ drainer.exhausted =>
          /\ PairsYielded(drainer) = PairsBefore(drainer)
          /\ Len(drainer.yielded) = Cardinality(drainer.before)
    /\ (drainer.exhausted /\ drainer.phase = "dropped") =>
          \A x \in drainer.before : find(table, x[2]).kind = "None"

\* C6: after a drain iterator is dropped, after any number of next() calls,
\* every slot is empty.
C6_DropEmptiesTable ==
    drainer.phase = "dropped" => \A s \in Slots : table[s].state = EMPTY_U64

\* C7: iter yields the pair of every occupied slot once, in increasing slot
\* order, leaves the table as it was, and yields the same sequence again.
C7_IterYieldsAll ==
    iterator.exhausted =>
        /\ iterator.yielded = InSlotOrder(table, Capacity)
        /\ Contents(table) = iterator.before
        /\ iterator.again => iterator.yielded = iterator.previous

(* ------------------------- insert's outcomes --------------------------- *)
\* the probe position of slot s in the probe sequence of key
ProbePos(key, s) == (s + Capacity - (Hash(key) % Capacity)) % Capacity
\* the key of the call was stored within the positions the call probes
StoredInRange(r) == \E x \in r.at : ProbePos(r.key, x[1]) < r.n

\* C8: insert of a key that is stored within the probed range returns
\* AlreadyInTable with the caller's value handed back and entry_value the
\* entry stored before; the entry keeps its value and the call writes no slot.
C8_AlreadyInTable ==
    \A t \in Threads : (InsertDone(t) /\ StoredInRange(thr[t])) =>
        LET r == thr[t] IN
        /\ r.res.kind = "AlreadyInTable"
        /\ r.res.passed = r.arg /\ r.value = r.arg
        /\ <<r.res.slot, table[r.res.slot].value.early>> \in r.at
        /\ r.res.slot \in SlotsOf(table, r.key)
        /\ ~wrote[t]

\* an insert of a stored key has returned, the entry as it was
C8_Witness ==
    \E t \in Threads :
        /\ InsertDone(t) /\ StoredInRange(thr[t])
        /\ thr[t].res.kind = "AlreadyInTable" /\ thr[t].res.passed = thr[t].arg
        /\ <<thr[t].res.slot, table[thr[t].res.slot].value.early>> \in thr[t].at

\* C9, as stated: when the probe positions of D within the search limit all
\* hold other keys, insert(D, V) returns TableFullOrSearchLimitHit with V and
\* writes nothing, and find(D) returns None.
C9_SearchLimitHitThenFindNone ==
    \A t \in Threads :
        /\ (InsertDone(t) /\ thr[t].blocked) =>
              /\ thr[t].res.kind = "TableFullOrSearchLimitHit"
              /\ thr[t].res.passed = thr[t].arg
              /\ ~wrote[t]
        /\ (FindDone(t) /\ thr[t].blocked) => thr[t].res.kind = "None"

\* C9, amended: when the probe positions of D within the search limit all hold
\* other keys, insert(D, V) returns TableFullOrSearchLimitHit with V (the
\* failure of get_or_insert) and writes nothing; find(D) returns None unless D
\* is stored past those positions, and then returns that entry.
C9_SearchLimitHit ==
    \A t \in Threads :
        /\ (InsertDone(t) /\ thr[t].blocked) =>
              /\ thr[t].res.kind = "TableFullOrSearchLimitHit"
              /\ thr[t].res.passed = thr[t].arg /\ thr[t].value = thr[t].arg
              /\ thr[t].out.kind = "GetOrInsertFailure"
              /\ ~wrote[t]
        /\ (FindDone(t) /\ thr[t].blocked) =>
              IF thr[t].at = {} THEN thr[t].res.kind = "None"
              ELSE /\ thr[t].res.kind = "Some"
                   /\ <<thr[t].res.slot, table[thr[t].res.slot].value.early>> \in thr[t].at
                   /\ ProbePos(thr[t].key, thr[t].res.slot) >= thr[t].window

\* insert fails within the search limit while the table has an empty slot
C9_Witness ==
    \E t \in Threads :
        /\ InsertDone(t) /\ thr[t].blocked
        /\ thr[t].res.kind = "TableFullOrSearchLimitHit"
        /\ \E s \in Slots : table[s].state = EMPTY_U64

\* C10: get_or_insert succeeds exactly when its insert returns Ok (no value
\* handed back, entry_value the new entry) or AlreadyInTable (the value handed
\* back, entry_value the entry that was there), and fails exactly when insert
\* returns TableFullOrSearchLimitHit, handing the value back.
C10_GetOrInsert ==
    \A t \in Threads : InsertDone(t) =>
        LET r == thr[t] IN
        /\ r.out.kind \in {"GetOrInsertSuccess", "GetOrInsertFailure"}
        /\ r.out.kind = "GetOrInsertSuccess" <=> r.res.kind \in {"Ok", "AlreadyInTable"}
        /\ r.out.kind = "GetOrInsertFailure" <=> r.res.kind = "TableFullOrSearchLimitHit"
        /\ r.res.kind = "Ok" =>
              /\ r.out.passed = Uninit /\ r.out.slot = r.res.slot
              /\ r.out.slot \in SlotsOf(table, r.key)
              /\ table[r.out.slot].value.early = r.arg.early
        /\ r.res.kind = "AlreadyInTable" =>
              /\ r.out.passed = r.arg /\ r.out.slot = r.res.slot
              /\ r.out.slot \in SlotsOf(table, r.key)
              /\ table[r.out.slot].value.early # r.arg.early
        /\ r.res.kind = "TableFullOrSearchLimitHit" => r.out.passed = r.arg
        /\ StoredInRange(r) => (r.out.kind = "GetOrInsertSuccess" /\ r.out.passed = r.arg)

\* get_or_insert of a key already present: success, with the value handed back
C10_Witness ==
    \E t \in Threads :
        /\ InsertDone(t) /\ StoredInRange(thr[t])
        /\ thr[t].out.kind = "GetOrInsertSuccess" /\ thr[t].out.passed = thr[t].arg

(* --------------------- one slot of either backend ---------------------- *)
\* the slots the caller tests hold what get says they hold
LocalNow == LocalGot(local_get(ent.local))
SyncNow == SyncGot(get(ent.sync))

\* C11: fill on an occupied slot, on either backend, returns AlreadyFull with
\* the caller's value handed back (owned by the caller, not destructed), the
\* key and the value of the entry that was there, and leaves the slot as it
\* was: get returns the same key and the same value as before the call.
C11_FillOnOccupied ==
    (ent.op = "fill" /\ ent.was # NoAbs) =>
        /\ ent.lres = EntryResult("AlreadyFull", ent.was.key, ent.was.early,
                                  ent.next - 1, ent.lgot.late)
        /\ ent.sres = EntryResult("AlreadyFull", ent.was.key, ent.was.early,
                                  ent.next - 1, ent.sgot.late)
        /\ (ent.next - 1) \in ent.lhand /\ ent.ldrops[ent.next - 1] = 0
        /\ (ent.next - 1) \in ent.shand /\ ent.sdrops[ent.next - 1] = 0
        /\ ent.lgot.kind = "Some" /\ LocalNow = ent.lgot
        /\ ent.sgot.kind = "Some" /\ SyncNow = ent.sgot

\* fill on a slot occupied by another key, whose late value has been set
C11_Witness ==
    /\ ent.op = "fill" /\ ent.was # NoAbs
    /\ ent.key # ent.was.key
    /\ ent.lres.kind = "AlreadyFull" /\ ent.sres.kind = "AlreadyFull"
    /\ ent.lgot.late # None

\* C12: fill on an empty slot returns Ok with a reference to the value now
\* stored, and get then returns Some with the key filled and that same value,
\* on both backends; on an empty slot get returns None.
C12_GetAfterFill ==
    /\ (ent.op = "fill" /\ ent.was = NoAbs) =>
          /\ ent.lres = EntryResult("Ok", NoKey, ent.next - 1, 0, None)
          /\ ent.sres = EntryResult("Ok", NoKey, ent.next - 1, 0, None)
          /\ LocalNow = EntryResult("Some", ent.key, ent.lres.early, 0, None)
          /\ SyncNow = EntryResult("Some", ent.key, ent.sres.early, 0, None)
    /\ ent.op = "get" =>
          IF ent.abs = NoAbs
          THEN ent.lres.kind = "None" /\ ent.sres.kind = "None"
          ELSE /\ ent.lres.kind = "Some" /\ ent.sres.kind = "Some"
               /\ ent.lres.key = ent.abs.key /\ ent.sres.key = ent.abs.key
               /\ ent.lres.early = ent.abs.early /\ ent.sres.early = ent.abs.early

\* get returns the entry of a slot that was emptied and filled again
C12_Witness ==
    /\ ent.op = "get" /\ ent.abs # NoAbs
    /\ ent.lres.kind = "Some" /\ ent.sres.kind = "Some"
    /\ ent.lres.key = ent.abs.key /\ ent.lres.early >= 2
    /\ ent.lhand # {}

(* ------------------------- the life of an entry ------------------------ *)
\* the key and the early value of the entry in slot s
EntryOf(tbl, s) ==
    [key |-> << <<StateFrom(tbl[s].state).key00, tbl[s].key01>>, tbl[s].key1 >>,
     early |-> tbl[s].value.early]
\* the step is one of a drain iterator (next, or the drop that runs next)
DrainStep == drainer' # drainer /\ drainer.phase \in {"live", "ended"}

\* C13: entry immutability. A slot that is occupied stays occupied with the
\* same key and the same early value through every step of find, insert,
\* get_or_insert (their get and fill steps), iter and set_late_value; only a
\* step of a drain iterator (take) empties it.
C13_EntryImmutable ==
    [][\A s \in Slots : IsFull(s) =>
          \/ /\ StateFrom(table'[s].state).tag = "Full"
             /\ EntryOf(table', s) = EntryOf(table, s)
          \/ /\ DrainStep
             /\ table'[s].state = EMPTY_U64]_vars

\* an occupied slot whose late value has been set, next to a fill in flight
\* on another slot
C13_Witness ==
    \E s \in Slots, t \in Threads :
        /\ IsFull(s) /\ table[s].value.late # 0
        /\ Writing(t) /\ CurSlot(thr[t]) # s

(* ----------------------------- late values ----------------------------- *)
\* the calls of set_late_value on the stored value that passed Some(v)
SetsOfSome == {i \in DOMAIN ent.sets : ent.sets[i] # None}
\* the late value the first of them set
FirstSet == ent.sets[CHOOSE i \in SetsOfSome : \A j \in SetsOfSome : i <= j]
\* the slots hold an entry, by the calls made and by what get returns
Occupied ==
    /\ ent.alive /\ ent.abs # NoAbs
    /\ LocalNow.kind = "Some" /\ SyncNow.kind = "Some"

\* C14: the late value of an entry starts unset, and once it is set no later
\* set_late_value changes or clears it: a step that leaves the entry in its
\* slot leaves a late value that is set as it is, on both backends.
C14_LateValueSetOnce ==
    /\ [][(Occupied /\ Occupied' /\ ent'.abs = ent.abs) =>
             /\ LocalNow.late # None => LocalNow' = LocalNow
             /\ SyncNow.late # None => SyncNow' = SyncNow]_vars
    /\ [](Occupied /\ ent.sets = <<>> => LocalNow.late = None /\ SyncNow.late = None)

\* C15: late_value() of an entry made with late value None returns None until
\* a set_late_value(Some(v)) has happened, and every late_value() after that
\* set returns Some(v), on both backends.
C15_LateValueVisible ==
    ent.op = "late_value" =>
        IF SetsOfSome = {}
        THEN ent.lres.late = None /\ ent.sres.late = None
        ELSE ent.lres.late = FirstSet /\ ent.sres.late = FirstSet

(* ------------------------------ ownership ------------------------------ *)
\* the number of owners v has on a backend: the caller (hand), the slot
\* (now, what get returns on it), and the destructions so far
Owners(v, hand, now, drops) ==
    (IF v \in hand THEN 1 ELSE 0)
    + (IF ent.alive /\ now.kind = "Some" /\ now.early = v THEN 1 ELSE 0)
    + drops[v]

C20_BackendEquivalence ==
    /\ ent.lres = ent.sres
    /\ ent.lgot = ent.sgot
    /\ LocalNow = SyncNow
    /\ ent.lhand = ent.shand

\* take has moved the second entry of the slot out, on both backends
C20_Witness ==
    /\ ent.op = "take" /\ ent.lres.kind = "Some" /\ ent.sres.kind = "Some"
    /\ ent.lres.early >= 2 /\ ent.lres.late # None
    /\ LocalNow.kind = "None" /\ SyncNow.kind = "None"

(* ------------------------------- waiting ------------------------------- *)
\* thread t takes a waiting step: a turn of get's loop that stays in the loop
Waits(t) == thr'[t].backoff_step > thr[t].backoff_step
\* thread t is in get's loop on its slot, or has left it for the reads
InGet(t) == thr[t].pc \in {"get_load", "get_read"}

\* C18, as stated: a find, insert or get_or_insert for key K never waits
\* because of a concurrent insert of another key: where it has waited on a
\* slot, the fill that won the slot was one of K.
C18_NoWaitForOtherKey ==
    \A t \in Threads :
        (InGet(t) /\ thr[t].backoff_step > 0) =>
            won[CurSlot(thr[t])].key = thr[t].key

\* C18, amended: a call for key K waits only on the slot it is probing, and
\* only while another thread's insert (of K or of any other key) is between
\* its compare-and-swap and its store of Full on that very slot; an insert at
\* work on another slot never makes it wait.
C18_WaitsOnlyForFillOnItsSlot ==
    [][\A t \in Threads : Waits(t) =>
          /\ thr[t].pc = "get_load"
          /\ \E u \in Threads \ {t} :
                /\ Writing(u) /\ thr[u].op = "insert"
                /\ CurSlot(thr[u]) = CurSlot(thr[t])
                /\ won[CurSlot(thr[t])] = [key |-> thr[u].key, value |-> thr[u].arg]]_vars

\* a find waits on the slot its key hashes to while another key is filled in
C18_Witness ==
    \E t, u \in Threads :
        /\ thr[t].op = "find" /\ thr[t].pc = "get_load" /\ thr[t].backoff_step > 0
        /\ Writing(u) /\ CurSlot(thr[u]) = CurSlot(thr[t])
        /\ thr[u].key # thr[t].key

\* C19: the only waiting is on the same slot. A get or fill takes a waiting
\* step only while the slot it is on is in ModificationInProgress; on a slot
\* that is Empty or Full, whatever fill is in flight on other slots, the next
\* step of get ends its loop and the next step of fill takes the slot or
\* turns to return AlreadyFull.
C19_WaitsOnlyOnSameSlot ==
    [][\A t \in Threads :
          /\ Waits(t) => thr[t].pc = "get_load" /\ IsInProgress(CurSlot(thr[t]))
          /\ (thr[t].pc = "get_load" /\ ~IsInProgress(CurSlot(thr[t])) /\ thr'[t] # thr[t]) =>
                /\ thr'[t].backoff_step <= thr[t].backoff_step
                /\ thr'[t].pc # "get_load" \/ thr'[t].i = thr[t].i + 1
          /\ (thr[t].pc = "fill_cas" /\ ~IsInProgress(CurSlot(thr[t])) /\ thr'[t] # thr[t]) =>
                thr'[t].pc \in {"fill_key01", "fill_full"}]_vars

\* a get has left its loop without a waiting step while a fill is in flight
\* on another slot
C19_Witness ==
    \E t, u \in Threads :
        /\ thr[t].pc = "get_read" /\ thr[t].backoff_step = 0
        /\ Writing(u) /\ CurSlot(thr[u]) # CurSlot(thr[t])

\* the results find, insert and get_or_insert return
Definitive == {"Ok", "AlreadyInTable", "TableFullOrSearchLimitHit", "Some", "None"}

\* thread t's get has seen ModificationInProgress on its slot and waited
Waiting(t) == thr[t].pc = "get_load" /\ thr[t].backoff_step > 0
\* thread t's last get has returned the Full entry of the slot it was on: the
\* call is over, or has moved on to the next slot of its probe sequence
GotFull(t) ==
    LET r == thr[t] IN
    /\ r.sr.kind \in {"Some", "AlreadyFull"}
    /\ IsFull(r.sr.slot)
    /\ r.sr.entry_key = EntryOf(table, r.sr.slot).key
    /\ \/ r.pc = "done" /\ r.sr.slot = CurSlot(r)
       \/ /\ r.pc = "fill_cas" \/ (r.pc = "get_load" /\ r.backoff_step = 0)
          /\ r.i > 0
          /\ r.sr.slot = table_indexes(r.key, r.i - 1)

\* C17: spin-wait liveness. With every thread that has a call in flight
\* scheduled again and again, every find, insert and get_or_insert comes to
\* its return, with one of its results; and a get (called by find, or by a
\* fill that lost the compare-and-swap) that has waited on a slot in
\* ModificationInProgress leaves its loop only when the slot is Full, and
\* returns that slot's Full entry.
C17_SpinWaitLiveness ==
    /\ \A t \in Threads : []<>(thr[t].pc \in {"idle", "done"})
    /\ [](\A t \in Threads : thr[t].pc = "done" => thr[t].res.kind \in Definitive)
    /\ [][\A t \in Threads :
            /\ (Waiting(t) /\ thr'[t].pc # "get_load") =>
                  thr'[t].pc = "get_read" /\ IsFull(CurSlot(thr[t]))
            /\ (thr[t].pc = "get_read" /\ thr'[t] # thr[t]) => GotFull(t)']_vars

\* a get has spun as far as yield_now behind another thread's fill
C17_Witness ==
    \E t, u \in Threads :
        /\ thr[t].pc = "get_load" /\ thr[t].backoff_step > 6
        /\ IsInProgress(CurSlot(thr[t]))
        /\ Writing(u) /\ CurSlot(thr[u]) = CurSlot(thr[t])

(* ------------------------------- take ---------------------------------- *)
\* the step is a call of take on the slots tested alone
TakeStep == ent'.op = "take" /\ ent' # ent

\* C21: take on an occupied slot returns the stored key and value, destructs
\* nothing (the value passes to the caller) and leaves the slot empty: a get
\* and a take that follow return None, a fill that follows succeeds. take on
\* an empty slot returns None and changes nothing. On both backends.
C21_Take ==
    [][TakeStep =>
          IF ent.abs # NoAbs
          THEN /\ ent'.lres = EntryResult("Some", ent.abs.key, ent.abs.early, 0,
                                          local_late_value(ent.local.value))
               /\ ent'.sres = EntryResult("Some", ent.abs.key, ent.abs.early, 0,
                                          sync_late_value(ent.sync.value))
               /\ ent'.ldrops = ent.ldrops /\ ent'.sdrops = ent.sdrops
               /\ ent'.lhand = ent.lhand \cup {ent.abs.early}
               /\ ent'.shand = ent.shand \cup {ent.abs.early}
               /\ local_get(ent'.local).kind = "None" /\ get(ent'.sync).kind = "None"
               /\ local_take(ent'.local).kind = "None" /\ take(ent'.sync).kind = "None"
               /\ \A key \in Keys :
                     /\ local_fill(ent'.local, key, LocalNewValues(1, None)).kind = "Ok"
                     /\ fill(ent'.sync, key, NewValues(1)).kind = "Ok"
          ELSE /\ ent'.lres.kind = "None" /\ ent'.sres.kind = "None"
               /\ ent'.local = ent.local /\ ent'.sync = ent.sync
               /\ ent'.lhand = ent.lhand /\ ent'.shand = ent.shand
               /\ ent'.ldrops = ent.ldrops /\ ent'.sdrops = ent.sdrops]_vars

\* take has returned the entry of an occupied slot whose late value was set
C21_Witness ==
    /\ ent.op = "take" /\ ent.was # NoAbs
    /\ ent.lres.kind = "Some" /\ ent.sres.kind = "Some"
    /\ ent.sres.late # None
    /\ ent.sres.early \in ent.shand

(* ---------------------------- construction ----------------------------- *)
\* the powers of two that fit in the machine word
PowersOfTwo == {Pow2(k) : k \in 0..(UsizeBits - 1)}

\* C22: capacity rounding. A table constructed with requested capacity N has
\* capacity() the smallest power of two >= N (1 for N = 0 and N = 1) and that
\* many slots, all empty; when no power of two >= N fits in the machine word
\* the constructor panics and makes no table; new / with_hasher set the insert
\* search limit to 32.
C22_CapacityRounding ==
    /\ built.kind # "none" =>
          LET fits == {p \in PowersOfTwo : p >= built.requested} IN
          IF fits = {}
          THEN built.kind = "panic"
          ELSE /\ built.kind = "table"
               /\ capacity(built) \in fits
               /\ \A p \in fits : capacity(built) <= p
               /\ DOMAIN built.table = 0..(capacity(built) - 1)
               /\ \A s \in DOMAIN built.table : built.table[s] = EMPTY
               /\ built.requested <= 1 => capacity(built) = 1
    /\ \A n \in Usizes : with_hasher(n).kind = "table" => with_hasher(n).insert_search_limit = 32

\* a capacity that is no power of two has been rounded up, and the default limit set
C22_Witness ==
    /\ built.kind = "table"
    /\ built.requested \notin PowersOfTwo
    /\ built.requested > 2
    /\ capacity(built) > built.requested
    /\ built.insert_search_limit = 32

(* ------------------------ the slot's state word ------------------------ *)
Tag(tbl, s) == StateFrom(tbl[s].state).tag

\* C23: the state machine of the concurrent slot. The state word of a slot
\* changes only from Empty to ModificationInProgress, by the compare-and-swap
\* of one fill; from ModificationInProgress to Full, by the store of that same
\* fill once it has written key01, key1 and the value; and from Full to Empty,
\* by a take of the drain iterator, which runs with no call in flight. Full is
\* not left while calls are in flight, and whenever no call is in flight (when
\* take and drop can run) no slot is in ModificationInProgress.
C23_SlotStateMachine ==
    /\ [][\A s \in Slots : table'[s].state # table[s].state =>
            \/ /\ Tag(table, s) = "Empty" /\ Tag(table', s) = "ModificationInProgress"
               /\ \E t \in Threads :
                     /\ thr[t].pc = "fill_cas" /\ thr'[t].pc = "fill_key01"
                     /\ CurSlot(thr[t]) = s
                     /\ \A u \in Threads \ {t} : thr'[u] = thr[u]
            \/ /\ Tag(table, s) = "ModificationInProgress" /\ Tag(table', s) = "Full"
               /\ \E t \in Threads :
                     /\ thr[t].pc = "fill_store" /\ CurSlot(thr[t]) = s
                     /\ won[s] = [key |-> thr[t].key, value |-> thr[t].arg]
                     /\ EntryOf(table', s) = [key |-> thr[t].key, early |-> thr[t].arg.early]
                     /\ table[s].key01 = thr[t].key[1][2]
                     /\ table[s].key1 = thr[t].key[2]
                     /\ table[s].value = thr[t].arg
            \/ /\ Tag(table, s) = "Full" /\ Tag(table', s) = "Empty"
               /\ DrainStep /\ AllIdle]_vars
    /\ [](\A s \in Slots :
            /\ Tag(table, s) \in {"Empty", "ModificationInProgress", "Full"}
            /\ IsInProgress(s) =>
                  \E t \in Threads : Writing(t) /\ CurSlot(thr[t]) = s)
    /\ [](AllIdle => \A s \in Slots : ~IsInProgress(s))

\* the drain iterator has taken the entry of a slot that two fills had raced
\* for, and another slot is still Full
C23_Witness ==
    /\ drainer.phase = "live" /\ Len(drainer.yielded) >= 1
    /\ \E s \in Slots : IsFull(s)
    /\ \E s \in Slots : s < drainer.entry_iter /\ Tag(table, s) = "Empty"

(* ----------------------------- probe order ----------------------------- *)
\* the i-th slot of key's probe sequence, as the claims state it
Path(key, i) == ((Hash(key) % Capacity) + i) % Capacity
\* the slot holds an entry whose key is not key
HoldsOther(s, key) == IsFull(s) /\ EntryOf(table, s).key # key
\* the call in flight of thread t has got through the first i slots of its
\* probe sequence: each holds another key
PassedOthers(t, i) == \A j \in 0..(i - 1) : HoldsOther(Path(thr[t].key, j), thr[t].key)

\* C24: probe order of insert. A sequential insert(K, V) is at any time on
\* slot (hash(K) mod capacity + i) mod capacity with i below min(capacity,
\* insert_search_limit), i goes up by one at a time from 0, and the call moves
\* past a slot only when it holds another key. It writes only the slot it is
\* on, which it found Empty; so (K, V) is stored in the first empty slot of
\* the sequence unless an earlier one holds K, and no other slot is written.
C24_ProbeOrder ==
    /\ [](LET r == thr[1] IN
          /\ (r.op = "insert" /\ r.pc \notin {"idle", "done"}) =>
                /\ r.i < Min(Capacity, insert_search_limit)
                /\ CurSlot(r) = Path(r.key, r.i)
                /\ PassedOthers(1, r.i)
          /\ InsertDone(1) =>
                /\ r.res.kind = "Ok" =>
                      /\ r.res.slot = Path(r.key, r.i)
                      /\ EntryOf(table, r.res.slot) = [key |-> r.key, early |-> r.arg.early]
                      /\ PassedOthers(1, r.i)
                /\ r.res.kind = "AlreadyInTable" =>
                      /\ r.res.slot = Path(r.key, r.i)
                      /\ IsFull(r.res.slot) /\ EntryOf(table, r.res.slot).key = r.key
                      /\ PassedOthers(1, r.i)
                      /\ ~wrote[1]
                /\ r.res.kind = "TableFullOrSearchLimitHit" =>
                      /\ PassedOthers(1, Min(Capacity, insert_search_limit))
                      /\ ~wrote[1])
    /\ [][LET r == thr[1] IN
          /\ (r.op = "insert" /\ thr'[1].op = "insert" /\ thr'[1].i # r.i) =>
                thr'[1].i = r.i + 1
          /\ \A s \in Slots :
                (table'[s] # table[s] /\ thr'[1] # r) =>
                    /\ r.op = "insert"
                    /\ s = Path(r.key, r.i)
                    /\ Tag(table, s) \in {"Empty", "ModificationInProgress"}
                    /\ won'[s] = [key |-> r.key, value |-> r.arg]
                    /\ PassedOthers(1, r.i)]_vars

\* an insert has gone round the end of the table and stored its value in the
\* first empty slot after a slot that held another key
C24_Witness ==
    /\ InsertDone(1) /\ thr[1].res.kind = "Ok"
    /\ thr[1].i >= 1
    /\ thr[1].res.slot < Hash(thr[1].key) % Capacity
    /\ wrote[1]

(* -------------------------------- find --------------------------------- *)
\* C25: find(K) visits at most capacity slots, in probe order, and moves past
\* a slot only when it holds another key. It returns the entry of the first
\* slot that holds K; it returns None at the first empty slot; and it returns
\* None after exactly capacity probes when every slot holds another key. With
\* one caller its get never waits.
C25_FindTerminates ==
    LET r == thr[1] IN
    /\ (r.op = "find" /\ r.pc \notin {"idle", "done"}) =>
          /\ r.n = Capacity /\ r.i < Capacity
          /\ CurSlot(r) = Path(r.key, r.i)
          /\ PassedOthers(1, r.i)
          /\ r.backoff_step = 0
    /\ FindDone(1) =>
          /\ r.i < Capacity
          /\ PassedOthers(1, r.i)
          /\ r.res.kind \in {"Some", "None"}
          /\ r.res.kind = "Some" =>
                /\ r.res.slot = Path(r.key, r.i)
                /\ IsFull(r.res.slot) /\ EntryOf(table, r.res.slot).key = r.key
          /\ r.res.kind = "None" =>
                \/ Tag(table, Path(r.key, r.i)) = "Empty"
                \/ /\ r.i = Capacity - 1
                   /\ \A s \in Slots : HoldsOther(s, r.key)

\* find has returned None for an absent key after going round a full table
C25_Witness ==
    /\ FindDone(1) /\ thr[1].res.kind = "None"
    /\ thr[1].i = Capacity - 1
    /\ \A s \in Slots : HoldsOther(s, thr[1].key)

(* ---------------------------- reachability ----------------------------- *)
\* the key stored in slot s can be reached by linear probing: the slots from
\* the one its key hashes to up to s are all occupied
Reachable(s) ==
    \A j \in 0..(ProbePos(EntryOf(table, s).key, s) - 1) :
        IsFull(Path(EntryOf(table, s).key, j))

\* C26: table reachability. With calls of insert / get_or_insert from several
\* threads and no drain, for every key K stored at a slot s every slot of K's
\* probe sequence before s is occupied; and when a fill publishes K at s, the
\* number of slots before s on K's probe sequence is below min(capacity,
\* insert_search_limit), the limit in force during the insert.
C26_Reachability ==
    /\ [](\A s \in Slots : IsFull(s) => Reachable(s))
    /\ [][\A s \in Slots : (~IsFull(s) /\ IsFull(s)') =>
            \E t \in Threads :
                /\ thr[t].pc = "fill_store" /\ CurSlot(thr[t]) = s
                /\ EntryOf(table', s).key = thr[t].key
                /\ ProbePos(thr[t].key, s) = thr[t].i
                /\ thr[t].window = Min(Capacity, insert_search_limit)
                /\ ProbePos(thr[t].key, s) < thr[t].window]_vars

\* a key is stored one slot after the slot it hashes to, under a search limit of two
C26_Witness ==
    /\ insert_search_limit = 2
    /\ \E s \in Slots :
          /\ IsFull(s) /\ ProbePos(EntryOf(table, s).key, s) = 1
          /\ \E t \in Threads : InsertDone(t) /\ thr[t].res.kind = "Ok" /\ thr[t].res.slot = s
    /\ \E t \in Threads : thr[t].pc = "get_load"

(* -------------------------- canonical storage -------------------------- *)
\* C27: canonical storage. Whatever the interleaving of the threads' insert
\* and get_or_insert calls, no key is stored in more than one slot.
C27_CanonicalStorage ==
    \A key \in Keys : Cardinality(SlotsOf(table, key)) <= 1

\* two threads have inserted one key at the same time: one has stored it, the
\* other has waited for the entry and got AlreadyInTable
C27_Witness ==
    \E t, u \in Threads, key \in Keys :
        /\ InsertDone(t) /\ thr[t].key = key /\ thr[t].res.kind = "Ok"
        /\ InsertDone(u) /\ thr[u].key = key /\ thr[u].res.kind = "AlreadyInTable"
        /\ thr[u].backoff_step > 0
        /\ Cardinality(SlotsOf(table, key)) = 1

(* ---------------------------- no lost insert --------------------------- *)
\* the probe positions within the search limit of t's call that were empty
\* before the calls of t and u: those empty now and those the two calls filled
FreeBefore(t, u) ==
    {j \in 0..(thr[t].window - 1) :
        LET s == Path(thr[t].key, j) IN
        \/ Tag(table, s) = "Empty"
        \/ IsFull(s) /\ won[s].value \in {thr[t].arg, thr[u].arg}}

\* two finished calls of insert by two threads, for two different keys that
\* hash to the same slot, with two probe positions within the limit to fill
Raced(t, u) ==
    /\ t # u /\ InsertDone(t) /\ InsertDone(u)
    /\ thr[t].key # thr[u].key
    /\ Path(thr[t].key, 0) = Path(thr[u].key, 0)
    /\ Cardinality(FreeBefore(t, u)) >= 2

\* what the two calls of a race come to
BothStored(t, u) ==
    /\ thr[t].res.kind = "Ok" /\ thr[u].res.kind = "Ok"
    /\ thr[t].res.slot # thr[u].res.slot
    /\ \A x \in {t, u} :
          /\ EntryOf(table, thr[x].res.slot) =
                [key |-> thr[x].key, early |-> thr[x].arg.early]
          /\ thr[x].out = Result("GetOrInsertSuccess", thr[x].res.slot, NoKey, Uninit)
          /\ find(table, thr[x].key) = [kind |-> "Some", slot |-> thr[x].res.slot]

\* no other call has stored either of the two keys
NoThirdCall(t, u) ==
    \A s \in Slots :
        (IsFull(s) /\ won[s].key \in {thr[t].key, thr[u].key}) =>
            won[s].value \in {thr[t].arg, thr[u].arg}

PresentUnlowered(t) ==
    /\ thr[t].at # {}
    /\ \A x \in thr[t].at : x[1] \notin lowered

\* C29: a present key is never reported as full. When the insert search limit
\* has not been lowered since key K was inserted, insert(K, V) returns
\* AlreadyInTable with the entry that holds K and V handed back, and
\* get_or_insert(K, V) returns success with that entry: not
\* TableFullOrSearchLimitHit, and nothing is stored.
C29_PresentNeverFull ==
    \A t \in Threads :
        (InsertDone(t) /\ PresentUnlowered(t)) =>
            LET r == thr[t] IN
            /\ r.res.kind = "AlreadyInTable"
            /\ r.res.passed = r.arg
            /\ <<r.res.slot, table[r.res.slot].value.early>> \in r.at
            /\ EntryOf(table, r.res.slot).key = r.key
            /\ r.out = Result("GetOrInsertSuccess", r.res.slot, NoKey, r.arg)
            /\ find(table, r.key) = [kind |-> "Some", slot |-> r.res.slot]
            /\ ~wrote[t]

\* a key stored two slots after the slot it hashes to is inserted again after
\* the limit was lowered (before the key was stored) and raised
C29_Witness ==
    /\ InsertDone(1) /\ PresentUnlowered(1)
    /\ thr[1].res.kind = "AlreadyInTable"
    /\ ProbePos(thr[1].key, thr[1].res.slot) = 2
    /\ lowered # {}
    /\ insert_search_limit > Capacity

(* -------------------------------- frame -------------------------------- *)
\* the step is one of thread t's call
StepOf(t) == thr'[t] # thr[t]
\* the step is a set_late_value: the table changes with no call and no drain moving
LateStep == table' # table /\ thr' = thr /\ drainer' = drainer

\* C30: frame. A step of find (and of the get it calls), of iter and of its
\* iterator changes no slot. A step of insert changes only the slot the call
\* is on, and only from the compare-and-swap it wins on an Empty slot to its
\* store of Full: a call that returns AlreadyInTable or
\* TableFullOrSearchLimitHit (its fills having returned AlreadyFull) has
\* written nothing, a call that returns Ok has turned exactly one slot from
\* empty to occupied. set_late_value changes the late value of the entry it
\* is called on and nothing else.
C30_Frame ==
    /\ [][/\ \A s \in Slots : table'[s] # table[s] =>
                \/ \E t \in Threads :
                      /\ StepOf(t) /\ thr[t].op = "insert"
                      /\ s = CurSlot(thr[t])
                      /\ (thr[t].pc = "fill_cas" /\ Tag(table, s) = "Empty") \/ Writing(t)
                      /\ \A x \in Slots \ {s} : table'[x] = table[x]
                \/ DrainStep
                \/ /\ LateStep
                   /\ \E t \in Threads :
                         /\ thr[t].pc = "done"
                         /\ thr[t].res.kind \in {"Ok", "AlreadyInTable", "Some"}
                         /\ thr[t].res.slot = s
                   /\ table' = [table EXCEPT ![s].value.late = table'[s].value.late]
          /\ \A t \in Threads :
                (StepOf(t) /\ (thr[t].op = "find" \/ thr'[t].op = "find")) => table' = table
          /\ (iterator' # iterator /\ ~DrainStep) => table' = table]_vars
    /\ [](\A t \in Threads :
            /\ wrote[t] =>
                  /\ thr[t].op = "insert"
                  /\ Writing(t) \/ (thr[t].pc = "done" /\ thr[t].res.kind = "Ok")
            /\ InsertDone(t) =>
                  IF thr[t].res.kind = "Ok"
                  THEN /\ wrote[t]
                       /\ \A x \in thr[t].at : x[1] # thr[t].res.slot
                  ELSE ~wrote[t]
            /\ FindDone(t) => ~wrote[t])

\* one thread has stored a key, the other has got AlreadyInTable for it and
\* has set the late value of the entry; another slot is as it was built
C30_Witness ==
    \E t, u \in Threads :
        /\ InsertDone(t) /\ thr[t].res.kind = "Ok" /\ wrote[t]
        /\ InsertDone(u) /\ thr[u].res.kind = "AlreadyInTable" /\ ~wrote[u]
        /\ thr[u].res.slot = thr[t].res.slot
        /\ table[thr[u].res.slot].value.late # 0
        /\ \E s \in Slots : table[s] = EMPTY

(* ------------------------- the state word's encoding ------------------- *)
\* the word of slot s decodes to the state last stored there: Empty while no
\* fill has won it (or take has emptied it), ModificationInProgress while the
\* winner writes, Full with the winner's key00 after its store
DecodesAsStored(s) ==
    LET st == StateFrom(table[s].state) IN
    /\ st.tag # "invalid state"
    /\ table[s].state = u64_from(FALSE, st)
    /\ st.tag = "Empty" <=> won[s] = NoWinner
    /\ st.tag = "ModificationInProgress" =>
          \E t \in Threads : Writing(t) /\ CurSlot(thr[t]) = s
    /\ st.tag = "Full" => st.key00 = won[s].key[1][1] /\ st.key00[1] # 0 /\ st.key00[2] # 0

\* C31: the encoding of the state word is unambiguous. unpack_u64(pack_u64([a,
\* b])) = [a, b] for all halves a, b; the Empty word is 0, the
\* ModificationInProgress word differs from it and each of the two has a zero
\* half, so neither is the word of a Full state, whose halves are nonzero;
\* converting a state to its word and back gives the state; and every word a
\* slot holds after fill, get and take decodes to the state that was stored
\* there, no call ending in the "invalid state" panic.
C31_StateWordEncoding ==
    /\ word.op = "pack" => word.back = word.v
    /\ word.op = "state" =>
          /\ word.decoded = word.st
          /\ word.st.tag = "Empty" => word.u64 = 0
          /\ word.st.tag = "ModificationInProgress" => word.u64 # 0
          /\ word.st.tag \in {"Empty", "ModificationInProgress"} <=>
                (word.back[1] = 0 \/ word.back[2] = 0)
          /\ word.st.tag = "Full" => word.back = word.st.key00
    /\ \A s \in Slots : DecodesAsStored(s)
    /\ \A t \in Threads :
          /\ thr[t].res.kind # "panic"
          /\ Writing(t) => IsInProgress(CurSlot(thr[t]))

\* a Full state with the largest halves has been stored and loaded, in the
\* big-endian build
C31_Witness ==
    /\ word.op = "state"
    /\ word.big
    /\ word.st = StateFull(<<IdRadix - 1, IdRadix - 2>>)
    /\ word.decoded = word.st

====
